---- MODULE Spec2Model ----
(***************************************************************************)
(* A model of the QuickJS bytecode decoder (crates/quickpars), of the      *)
(* translation layer built on it (crates/translate) and of the operator   *)
(* decoder (crates/quickpars/src/op.rs).                                   *)
(*                                                                         *)
(* A byte is an integer 0..255, a buffer a sequence of bytes.  A result    *)
(* of a fallible operation is a record whose field err is "none" for Ok,   *)
(* the failure kind for Err, and "panic" when the Rust code aborts (an     *)
(* out-of-range slice index); a panic is not an Err value.                 *)
(***************************************************************************)
EXTENDS Integers, Sequences, FiniteSets, TLC

VARIABLES data, parser, stream, translation, builder, pc, ret,
          op_reader, ops, op_pc, overflow_checks,
          resolver, fb, tracer, matcher, reporter, readers

vars == <<data, parser, stream, translation, builder, pc, ret,
          op_reader, ops, op_pc, overflow_checks,
          resolver, fb, tracer, matcher, reporter, readers>>

decoder_vars == <<data, parser, stream, translation, builder, pc, ret>>

operator_vars == <<op_reader, ops, op_pc, overflow_checks>>

resolver_vars == <<resolver>>

compiler_vars == <<fb>>

trace_vars == <<tracer>>

match_vars == <<matcher>>

report_vars == <<reporter>>

reader_vars == <<readers>>

\* What the actions of one component leave alone: the other components.
not_decoder_vars ==
    <<operator_vars, resolver_vars, compiler_vars, trace_vars,
      match_vars, report_vars, reader_vars>>

not_operator_vars ==
    <<decoder_vars, resolver_vars, compiler_vars, trace_vars,
      match_vars, report_vars, reader_vars>>

not_resolver_vars ==
    <<decoder_vars, operator_vars, compiler_vars, trace_vars,
      match_vars, report_vars, reader_vars>>

not_compiler_vars ==
    <<decoder_vars, operator_vars, resolver_vars, trace_vars,
      match_vars, report_vars, reader_vars>>

not_trace_vars ==
    <<decoder_vars, operator_vars, resolver_vars, compiler_vars,
      match_vars, report_vars, reader_vars>>

not_match_vars ==
    <<decoder_vars, operator_vars, resolver_vars, compiler_vars,
      trace_vars, report_vars, reader_vars>>

not_report_vars ==
    <<decoder_vars, operator_vars, resolver_vars, compiler_vars,
      trace_vars, match_vars, reader_vars>>

not_reader_vars ==
    <<decoder_vars, operator_vars, resolver_vars, compiler_vars,
      trace_vars, match_vars, report_vars>>

(***************************************************************************)
(* Bounds of the checked input families.                                   *)
(***************************************************************************)
MaxFuncs == 2

MaxAtoms == 2

MaxOps == 2

MaxLocals == 5

MaxLines == 2

MaxRecovered == 2

MaxEvents == 3

(***************************************************************************)
(* Program constants.                                                      *)
(***************************************************************************)
VERSION == 67

ATOM_NAMES_LEN == 228

JS_EXPORT_TYPE_LOCAL == 0

CONSTANT_POOL_OFFSET == 1

\* The reserved value of an index entity (u32::MAX), kept symbolic.
ReservedIndex == -1

\* Values of 2^31 and above are held at this value: such a count or length
\* exceeds every buffer of the model, and the code only compares it with
\* the bytes that remain.
Saturated == 2 * 1073741823 + 1

(***************************************************************************)
(* crates/quickpars/src/readers.rs                                         *)
(***************************************************************************)
BinaryReader_new(d) == [data |-> d, offset |-> 0]

BinaryReader_empty == [data |-> <<>>, offset |-> 0]

Ok(v, r) == [err |-> "none", val |-> v, rd |-> r]

Err(e, r) == [err |-> e, val |-> 0, rd |-> r]

done(r) == r.offset >= Len(r.data)

ensure(r, size) == r.offset + size <= Len(r.data)

\* read(bytes): the slice of the next `bytes` bytes, the reader advanced.
read(r, bytes) ==
    IF ensure(r, bytes)
    THEN Ok(SubSeq(r.data, r.offset + 1, r.offset + bytes),
            [r EXCEPT !.offset = r.offset + bytes])
    ELSE Err("Truncated", r)

\* In what follows the result of a call joined by `?` is the argument of
\* the operator that holds the rest of the function: a failure is returned
\* as it is, a success is used.
read_u8(r) ==
    LET rest(s) == IF s.err # "none" THEN s ELSE Ok(s.val[1], s.rd)
    IN rest(read(r, 1))

read_u16(r) ==
    LET rest(s) == IF s.err # "none" THEN s ELSE Ok(s.val[1] + 256 * s.val[2], s.rd)
    IN rest(read(r, 2))

skip(r, bytes) ==
    IF ensure(r, bytes)
    THEN Ok(0, [r EXCEPT !.offset = r.offset + bytes])
    ELSE Err("Truncated", r)

\* 2^k for the shifts of a LEB128 group that still fit the model's integers.
RECURSIVE Pow2(_)
Pow2(k) == IF k = 0 THEN 1 ELSE 2 * Pow2(k - 1)

\* leb128::read::unsigned on the reader r: n is the number of bytes read so
\* far, acc the value of the groups read (held at Saturated from 2^31 on),
\* big whether the value exceeds u32::MAX.  A failure leaves the reader
\* where it was; a success carries the reader advanced by the bytes read.
RECURSIVE leb128_unsigned(_, _, _, _)
leb128_unsigned(r, n, acc, big) ==
    IF r.offset + 1 + n > Len(r.data)
    THEN Err("Truncated", r)
    ELSE LET b     == r.data[r.offset + 1 + n]
             low   == b % 128
             shift == 7 * n
             cont  == b >= 128
             acc2  == IF low = 0 THEN acc
                      ELSE IF shift >= 28 /\ (shift > 28 \/ low >= 8)
                           THEN Saturated
                           ELSE IF acc = Saturated THEN Saturated
                                ELSE acc + low * Pow2(shift)
             big2  == big \/ (low # 0 /\ (shift > 28 \/ (shift = 28 /\ low >= 16)))
         IN IF shift = 63 /\ b # 0 /\ b # 1
            THEN Err("Overflow", r)
            ELSE IF ~cont
                 THEN [err |-> "none", val |-> acc2,
                       rd |-> [r EXCEPT !.offset = r.offset + n + 1], big |-> big2]
                 ELSE leb128_unsigned(r, n + 1, acc2, big2)

\* read_leb128: a failure of the leb128 reader leaves the offset alone; the
\* offset is advanced before the conversion to u32 is tried.
read_leb128(r) ==
    LET rest(l) == IF l.err # "none" THEN l
                   ELSE IF l.big THEN Err("Overflow", l.rd)
                   ELSE Ok(l.val, l.rd)
    IN rest(leb128_unsigned(r, 0, 0, FALSE))

read_atom(r) ==
    LET rest(l) == IF l.err # "none" THEN l ELSE Ok(l.val \div 2, l.rd)
    IN rest(read_leb128(r))

\* A slice that takes its window from the start of the data instead of the
\* reader's offset.
slice_from_start(r, size) ==
    IF r.offset + size > Len(r.data)
    THEN Err("panic", r)
    ELSE LET res == BinaryReader_new(SubSeq(r.data, 1, size))
             rest(s) == IF s.err # "none" THEN s ELSE Ok(res, s.rd)
         IN rest(skip(r, size))

\* slice: the sub-slice is indexed before skip() checks the size, so a size
\* beyond the remaining bytes aborts.
slice(r, size) ==
    IF r.offset + size > Len(r.data)
    THEN Err("panic", r)
    ELSE LET res == BinaryReader_new(SubSeq(r.data, r.offset + 1, r.offset + size))
             rest(s) == IF s.err # "none" THEN s ELSE Ok(res, s.rd)
         IN rest(skip(r, size))

read_str_bytes(r) ==
    LET rest(l) ==
          IF l.err # "none" THEN l
          ELSE LET is_wide_char == l.val % 2
                   len  == l.val \div 2
                   size == IF is_wide_char = 1
                           THEN (IF len >= 1073741824 THEN Saturated ELSE 2 * len)
                           ELSE len
                   rr   == l.rd
                   bytes(s) ==
                       IF s.err # "none" THEN s
                       ELSE Ok(SubSeq(rr.data, rr.offset + 1, rr.offset + size), s.rd)
               IN IF rr.offset + size > Len(rr.data)
                  THEN Err("panic", rr)
                  ELSE bytes(skip(rr, size))
    IN rest(read_leb128(r))

\* core::str::from_utf8 on the bytes from position i (1-based) on.
InRange(b, lo, hi) == lo <= b /\ b <= hi

RECURSIVE from_utf8_ok(_, _)
from_utf8_ok(s, i) ==
    IF i > Len(s) THEN TRUE
    ELSE LET b == s[i]
             has(k) == i + k <= Len(s)
             cont(k) == InRange(s[i + k], 128, 191)
         IN IF b < 128 THEN from_utf8_ok(s, i + 1)
            ELSE IF InRange(b, 194, 223)
                 THEN has(1) /\ cont(1) /\ from_utf8_ok(s, i + 2)
            ELSE IF InRange(b, 224, 239)
                 THEN /\ has(2)
                      /\ IF b = 224 THEN InRange(s[i + 1], 160, 191)
                         ELSE IF b = 237 THEN InRange(s[i + 1], 128, 159)
                         ELSE cont(1)
                      /\ cont(2)
                      /\ from_utf8_ok(s, i + 3)
            ELSE IF InRange(b, 240, 244)
                 THEN /\ has(3)
                      /\ IF b = 240 THEN InRange(s[i + 1], 144, 191)
                         ELSE IF b = 244 THEN InRange(s[i + 1], 128, 143)
                         ELSE cont(1)
                      /\ cont(2)
                      /\ cont(3)
                      /\ from_utf8_ok(s, i + 4)
            ELSE FALSE

(***************************************************************************)
(* Sequences of reads joined by `?`: the fields are read in order and the  *)
(* first failure is returned with the reader where that read left it.      *)
(***************************************************************************)
read_kind(r, kind) ==
    CASE kind = "u8"   -> read_u8(r)
      [] kind = "u16"  -> read_u16(r)
      [] kind = "leb"  -> read_leb128(r)
      [] kind = "atom" -> read_atom(r)

RECURSIVE read_fields(_, _)
read_fields(r, kinds) ==
    IF kinds = <<>> THEN Ok(<<>>, r)
    ELSE LET push(h, t) == IF t.err # "none" THEN t ELSE Ok(<<h.val>> \o t.val, t.rd)
             rest(h) == IF h.err # "none" THEN h
                        ELSE push(h, read_fields(h.rd, Tail(kinds)))
         IN rest(read_kind(r, Head(kinds)))

\* for _ in 0..count { entries.push(<fields>) }
RECURSIVE read_entries(_, _, _)
read_entries(r, count, kinds) ==
    IF count = 0 THEN Ok(<<>>, r)
    ELSE LET push(h, t) == IF t.err # "none" THEN t ELSE Ok(<<h.val>> \o t.val, t.rd)
             rest(h) == IF h.err # "none" THEN h
                        ELSE push(h, read_entries(h.rd, count - 1, kinds))
         IN rest(read_fields(r, kinds))

(***************************************************************************)
(* crates/quickpars/src/bc.rs                                              *)
(***************************************************************************)
validate_version(version) == version = VERSION

\* Tag::map_byte with the two tag values exchanged.
Tag_map_byte_swapped(byte) ==
    CASE byte = 12 -> "Module"
      [] byte = 13 -> "FunctionBytecode"
      [] OTHER     -> "none"

Tag_map_byte(byte) ==
    CASE byte = 12 -> "FunctionBytecode"
      [] byte = 13 -> "Module"
      [] OTHER     -> "none"

\* flag::<bool>(flags, index): size_of::<bool>() is 1, so the mask is 1.
flag(flags, index) == (flags \div Pow2(index)) % 2

(***************************************************************************)
(* crates/quickpars/src/lib.rs: the payloads and the parser                *)
(***************************************************************************)
Payload(kind, body) == [kind |-> kind, body |-> body]

NoMeta == [some |-> FALSE, bytecode_len |-> 0, local_count |-> 0,
           closure_var_count |-> 0, constant_pool_size |-> 0, debug |-> FALSE]

Parser_new == [state |-> "Version", offset |-> 0, done |-> FALSE, meta |-> NoMeta]

\* The outcome of a parse_* method: err as for the readers, the payload of
\* an Ok, the reader, and the parser's state and meta as the method left them.
POk(p, r, st, m) == [err |-> "none", payload |-> p, rd |-> r, state |-> st, meta |-> m]

PErr(e, r, st, m) == [err |-> e, payload |-> Payload("none", <<>>), rd |-> r,
                      state |-> st, meta |-> m]

\* A read x joined by `?` inside a parse_* method: its failure ends the
\* method with the parser's state st and meta m as they are at that point.
Failed(x, st, m) == PErr(x.err, x.rd, st, m)

\* for _ in 0..atom_count { atoms.push(from_utf8(read_str_bytes(reader)?)?) }
RECURSIVE read_atom_strings(_, _)
read_atom_strings(r, count) ==
    IF count = 0 THEN Ok(<<>>, r)
    ELSE LET push(h, t) == IF t.err # "none" THEN t ELSE Ok(<<h.val>> \o t.val, t.rd)
             rest(h) == IF h.err # "none" THEN h
                        ELSE IF ~from_utf8_ok(h.val, 1) THEN Err("Utf8", h.rd)
                        ELSE push(h, read_atom_strings(h.rd, count - 1))
         IN rest(read_str_bytes(r))

\* A header whose decoded strings are pushed in the reverse of the order
\* they are read in.
parse_header_last_first(st, m, r) ==
    LET header(c, a) ==
          IF a.err # "none" THEN Failed(a, st, m)
          ELSE POk(Payload("Header",
                           [atom_count |-> c.val,
                            atoms |-> [len |-> ATOM_NAMES_LEN + Len(a.val),
                                       custom |-> [k \in 1..Len(a.val) |->
                                                     a.val[Len(a.val) + 1 - k]]]]),
                   a.rd, "Tags", m)
        rest(c) == IF c.err # "none" THEN Failed(c, st, m)
                   ELSE header(c, read_atom_strings(c.rd, c.val))
    IN rest(read_leb128(r))

\* The atom table of a header is the ATOM_NAMES_LEN built-in names followed
\* by the decoded strings: `custom` holds the decoded strings, `len` the
\* length of the whole table.
parse_header(st, m, r) ==
    LET header(c, a) ==
          IF a.err # "none" THEN Failed(a, st, m)
          ELSE POk(Payload("Header",
                           [atom_count |-> c.val,
                            atoms |-> [len |-> ATOM_NAMES_LEN + Len(a.val),
                                       custom |-> a.val]]),
                   a.rd, "Tags", m)
        rest(c) == IF c.err # "none" THEN Failed(c, st, m)
                   ELSE header(c, read_atom_strings(c.rd, c.val))
    IN rest(read_leb128(r))

\* One export entry: the type byte selects a local or an indirect export.
read_export(r) ==
    LET local(f) == IF f.err # "none" THEN f ELSE Ok(<<"Local">> \o f.val, f.rd)
        indirect(f) == IF f.err # "none" THEN f ELSE Ok(<<"Indirect">> \o f.val, f.rd)
        rest(t) == IF t.err # "none" THEN t
                   ELSE IF t.val = JS_EXPORT_TYPE_LOCAL
                        THEN local(read_fields(t.rd, <<"leb", "atom">>))
                        ELSE indirect(read_fields(t.rd, <<"leb", "atom", "atom">>))
    IN rest(read_u8(r))

RECURSIVE read_exports(_, _)
read_exports(r, count) ==
    IF count = 0 THEN Ok(<<>>, r)
    ELSE LET push(h, t) == IF t.err # "none" THEN t ELSE Ok(<<h.val>> \o t.val, t.rd)
             rest(h) == IF h.err # "none" THEN h
                        ELSE push(h, read_exports(h.rd, count - 1))
         IN rest(read_export(r))

\* parse_module_header clears the meta right after the name atom is read.
parse_module_header(st, m, r) ==
    LET has_tla(name, req, ex, star, im, tla) ==
          IF tla.err # "none" THEN Failed(tla, st, NoMeta)
          ELSE POk(Payload("ModuleHeader",
                           [name_index |-> name.val, req_modules |-> req.val,
                            exports |-> ex.val, star_exports |-> star.val,
                            imports |-> im.val, has_tla |-> tla.val]),
                   tla.rd, st, NoMeta)
        imports(name, req, ex, star, im) ==
          IF im.err # "none" THEN Failed(im, st, NoMeta)
          ELSE has_tla(name, req, ex, star, im, read_u8(im.rd))
        imports_count(name, req, ex, star, icount) ==
          IF icount.err # "none" THEN Failed(icount, st, NoMeta)
          ELSE imports(name, req, ex, star,
                       read_entries(icount.rd, icount.val, <<"leb", "atom", "leb">>))
        star_exports(name, req, ex, star) ==
          IF star.err # "none" THEN Failed(star, st, NoMeta)
          ELSE imports_count(name, req, ex, star, read_leb128(star.rd))
        star_exports_count(name, req, ex, scount) ==
          IF scount.err # "none" THEN Failed(scount, st, NoMeta)
          ELSE star_exports(name, req, ex,
                            read_entries(scount.rd, scount.val, <<"leb">>))
        exports(name, req, ex) ==
          IF ex.err # "none" THEN Failed(ex, st, NoMeta)
          ELSE star_exports_count(name, req, ex, read_leb128(ex.rd))
        exports_count(name, req, ecount) ==
          IF ecount.err # "none" THEN Failed(ecount, st, NoMeta)
          ELSE exports(name, req, read_exports(ecount.rd, ecount.val))
        req_modules(name, req) ==
          IF req.err # "none" THEN Failed(req, st, NoMeta)
          ELSE exports_count(name, req, read_leb128(req.rd))
        deps_count(name, deps) ==
          IF deps.err # "none" THEN Failed(deps, st, NoMeta)
          ELSE req_modules(name, read_entries(deps.rd, deps.val, <<"atom">>))
        module_name(name) ==
          IF name.err # "none" THEN Failed(name, st, m)
          ELSE deps_count(name, read_leb128(name.rd))
    IN module_name(read_atom(r))

FunctionHeaderFields ==
    <<"u16", "u8", "atom", "leb", "leb", "leb", "leb", "leb", "leb", "leb", "leb">>

\* if reader.done() { self.state = ParserState::End }
end_if_done(p) == [p EXCEPT !.state = IF done(p.rd) THEN "End" ELSE p.state]

\* parse_tag: a module section falls through to the reader.done() test, which
\* runs for an Err as well; a function section returns early.
parse_tag(tag, st, m, r) ==
    IF tag = "Module"
    THEN end_if_done(parse_module_header(st, m, r))
    ELSE LET header(f) ==
               IF f.err # "none" THEN Failed(f, st, m)
               ELSE
                 LET v == f.val
                     debug == flag(v[1], 9)
                 IN POk(Payload("FunctionHeader",
                                [flags |-> v[1], name_index |-> v[3],
                                 arg_count |-> v[4], var_count |-> v[5],
                                 defined_arg_count |-> v[6], stack_size |-> v[7],
                                 closure_var_count |-> v[8],
                                 constant_pool_size |-> v[9],
                                 bytecode_len |-> v[10], local_count |-> v[11]]),
                        f.rd, "FunctionLocals",
                        [some |-> TRUE, bytecode_len |-> v[10],
                         local_count |-> v[11], closure_var_count |-> v[8],
                         constant_pool_size |-> v[9], debug |-> debug # 0])
         IN header(read_fields(r, FunctionHeaderFields))

parse_local_section(st, m, r) ==
    IF ~m.some THEN PErr("MissingMeta", r, st, m)
    ELSE LET locals(l) ==
               IF l.err # "none" THEN Failed(l, st, m)
               ELSE POk(Payload("FunctionLocals", l.val), l.rd, "FunctionClosureVars", m)
         IN locals(read_entries(r, m.local_count, <<"atom", "leb", "leb", "u8">>))

parse_closure_var_section(st, m, r) ==
    IF ~m.some THEN PErr("MissingMeta", r, st, m)
    ELSE LET closure_vars(l) ==
               IF l.err # "none" THEN Failed(l, st, m)
               ELSE POk(Payload("FunctionClosureVars", l.val), l.rd,
                        "FunctionOperators", m)
         IN closure_vars(read_entries(r, m.closure_var_count, <<"atom", "leb", "u8">>))

\* parse_operators_section sets the next state before it carves the slice.
parse_operators_section(st, m, r) ==
    IF ~m.some THEN PErr("MissingMeta", r, st, m)
    ELSE LET next == IF m.debug THEN "Debug" ELSE "Tags"
             operators(s) ==
               IF s.err # "none" THEN Failed(s, next, m)
               ELSE POk(Payload("FunctionOperators", s.val), s.rd, next, m)
         IN operators(slice(r, m.bytecode_len))

parse_debug_section(st, m, r) ==
    LET info(h, line_buffer, c, col_buffer) ==
          IF col_buffer.err # "none" THEN Failed(col_buffer, st, m)
          ELSE POk(Payload("FunctionDebugInfo",
                           [filename |-> h.val[1], lineno |-> h.val[2],
                            colno |-> c.val[1], line_buffer |-> line_buffer.val,
                            col_buffer |-> col_buffer.val]),
                   col_buffer.rd, "Tags", m)
        columns(h, line_buffer, c) ==
          IF c.err # "none" THEN Failed(c, st, m)
          ELSE info(h, line_buffer, c, slice(c.rd, c.val[2]))
        lines(h, line_buffer) ==
          IF line_buffer.err # "none" THEN Failed(line_buffer, st, m)
          ELSE columns(h, line_buffer, read_fields(line_buffer.rd, <<"leb", "leb">>))
        rest(h) ==
          IF h.err # "none" THEN Failed(h, st, m)
          ELSE lines(h, slice(h.rd, h.val[3]))
    IN rest(read_fields(r, <<"atom", "leb", "leb">>))

parse_with(st, m, r) ==
    CASE st = "Version" ->
            LET version(b) ==
                  IF b.err # "none" THEN Failed(b, st, m)
                  ELSE IF ~validate_version(b.val)
                       THEN PErr("VersionMismatch", b.rd, st, m)
                  ELSE POk(Payload("Version", b.val), b.rd, "Header", m)
            IN version(read_u8(r))
      [] st = "Header" -> parse_header(st, m, r)
      [] st = "Tags" ->
            LET tag(b) ==
                  IF b.err # "none" THEN Failed(b, st, m)
                  ELSE IF Tag_map_byte(b.val) = "none"
                       THEN PErr("UnsupportedTag", b.rd, st, m)
                  ELSE parse_tag(Tag_map_byte(b.val), st, m, b.rd)
            IN tag(read_u8(r))
      [] st = "FunctionLocals" -> parse_local_section(st, m, r)
      [] st = "FunctionClosureVars" -> parse_closure_var_section(st, m, r)
      [] st = "FunctionOperators" -> parse_operators_section(st, m, r)
      [] st = "Debug" -> parse_debug_section(st, m, r)
      [] st = "End" -> POk(Payload("End", <<>>), r, st, m)

\* The match on the result res of parse_with in Parser::parse: the parser
\* after, and `item`, what the iterator yields; an Err carries the offset
\* of its context message.
parse_result(p, d, res) ==
    LET p1 == [p EXCEPT !.state = res.state, !.meta = res.meta]
    IN IF res.err = "none"
       THEN LET off == p.offset + res.rd.offset
                p2 == [p1 EXCEPT !.offset = off,
                                 !.done = IF res.payload.kind = "End" THEN TRUE
                                          ELSE off >= Len(d)]
            IN [outcome |-> "Ok", item |-> res.payload, parser |-> p2]
       ELSE IF res.err = "panic"
       THEN [outcome |-> "Panic", item |-> Payload("none", <<>>), parser |-> p1]
       ELSE [outcome |-> "Err",
             item |-> Payload("Err", [kind |-> res.err,
                                      offset |-> p.offset + res.rd.offset,
                                      state |-> res.state]),
             parser |-> [p1 EXCEPT !.done = TRUE]]

\* Parser::parse on the parser p and the buffer d: parse_with on a fresh
\* reader over d[p.offset..].
parse(p, d) ==
    parse_result(p, d, parse_with(p.state, p.meta,
                                  BinaryReader_new(SubSeq(d, p.offset + 1, Len(d)))))

(***************************************************************************)
(* crates/translate/src/lib.rs                                             *)
(***************************************************************************)
DefaultHeaderSection == [atom_count |-> 0, atoms |-> [len |-> 0, custom |-> <<>>]]

DefaultModuleSectionHeader ==
    [name_index |-> 0, req_modules |-> <<>>, exports |-> <<>>,
     star_exports |-> <<>>, imports |-> <<>>, has_tla |-> 0]

DefaultTranslation ==
    [header |-> DefaultHeaderSection,
     module |-> [header |-> DefaultModuleSectionHeader, functions |-> <<>>]]

\* debug is <<>> for None and <<di>> for Some(di).
FunctionTranslation_new(header, index) ==
    [header |-> header, locals |-> <<>>, closure_vars |-> <<>>,
     operators |-> BinaryReader_empty, debug |-> <<>>, index |-> index]

\* push_func on a module translation m: the module after, and the index.
push_func(m, header) ==
    LET index == Len(m.functions)
    IN [module |-> [m EXCEPT !.functions =
                        Append(m.functions, FunctionTranslation_new(header, index))],
        index |-> index]

TranslationBuilder_new ==
    [translation |-> DefaultTranslation, current_func |-> ReservedIndex]

\* self.translation.module.functions[self.current_func] is in range.
CurrentInRange(b) ==
    /\ b.current_func >= 0
    /\ b.current_func < Len(b.translation.module.functions)

\* One arm of the match in translate: the local translation t and the
\* builder b after the payload p is handled.  The header and the module
\* header go to the local translation, everything of a function to the
\* builder's own translation.
translate_arm(t, b, p) ==
    LET cur == b.current_func + 1
        setf(field, v) ==
            [t |-> t,
             b |-> [b EXCEPT !.translation.module.functions[cur] =
                        [@ EXCEPT ![field] = v]]]
    IN CASE p.kind = "Header" -> [t |-> [t EXCEPT !.header = p.body], b |-> b]
         [] p.kind = "ModuleHeader" ->
                [t |-> [t EXCEPT !.module.header = p.body], b |-> b]
         [] p.kind = "FunctionHeader" ->
                LET r == push_func(b.translation.module, p.body)
                IN [t |-> t,
                    b |-> [b EXCEPT !.translation.module = r.module,
                                    !.current_func = r.index]]
         [] p.kind = "FunctionLocals" -> setf("locals", p.body)
         [] p.kind = "FunctionDebugInfo" -> setf("debug", <<p.body>>)
         [] p.kind = "FunctionClosureVars" -> setf("closure_vars", p.body)
         [] p.kind = "FunctionOperators" -> setf("operators", p.body)
         [] OTHER -> [t |-> t, b |-> b]

\* The arm indexes the builder's function list.
ArmIndexes(p) ==
    p.kind \in {"FunctionLocals", "FunctionDebugInfo", "FunctionClosureVars",
                "FunctionOperators"}

NoReturn == [status |-> "none", error |-> <<>>, translation |-> DefaultTranslation]

(***************************************************************************)
(* The buffers the decoder is run on: the encodings, in the wire format    *)
(* the parser reads, of a header, an optional module section and up to     *)
(* MaxFuncs function sections; every prefix of such an encoding; and the   *)
(* encodings with a wrong version byte, an unknown tag or a string that is *)
(* not UTF-8.                                                              *)
(***************************************************************************)
RECURSIVE Leb(_)
Leb(n) == IF n < 128 THEN <<n>> ELSE <<128 + (n % 128)>> \o Leb(n \div 128)

AtomRef(i) == Leb(2 * i)

RECURSIVE Concat(_)
Concat(ss) == IF ss = <<>> THEN <<>> ELSE Head(ss) \o Concat(Tail(ss))

\* The j-th decoded atom string: one narrow character for odd j, one wide
\* character for even j.
AtomString(j) == IF j % 2 = 1 THEN <<2, 97>> ELSE <<3, 98, 0>>

EncodeHeader(n) == Leb(n) \o Concat([j \in 1..n |-> AtomString(j)])

EmptyModule == <<13>> \o AtomRef(48) \o <<0, 0, 0, 0, 0>>

\* One required module, a local and an indirect export, one star export,
\* one import, and the top-level-await byte.
FullModule ==
    <<13>> \o AtomRef(48)
        \o <<1>> \o AtomRef(ATOM_NAMES_LEN)
        \o <<2>> \o <<JS_EXPORT_TYPE_LOCAL, 0>> \o AtomRef(22)
                 \o <<1, 0>> \o AtomRef(22) \o AtomRef(22)
        \o <<1, 0>>
        \o <<1>> \o <<0>> \o AtomRef(22) \o <<0>>
        \o <<1>>

ModuleChoices == {<<>>, EmptyModule, FullModule}

\* The function sections of the family: flags, locals, closure variables,
\* operator bytes.  Bit 9 of the flags (512) announces debug information.
FuncShapes ==
    { [flags |-> 0,    name |-> 0,   nloc |-> 0, ncv |-> 0, code |-> <<41>>],
      [flags |-> 512,  name |-> ATOM_NAMES_LEN, nloc |-> 1, ncv |-> 1,
       code |-> <<236, 5>>],
      [flags |-> 1025, name |-> 0,   nloc |-> 2, ncv |-> 0, code |-> <<41>>],
      [flags |-> 0,    name |-> 0,   nloc |-> 0, ncv |-> 0, code |-> <<>>] }

EncodeLocal(j) == AtomRef(ATOM_NAMES_LEN + j) \o <<0, 0, 0>>

EncodeClosureVar(j) == AtomRef(ATOM_NAMES_LEN + j) \o <<j, 0>>

EncodeDebug == AtomRef(0) \o <<1, 1, 9, 1, 0>>

EncodeFunction(f) ==
    <<12, f.flags % 256, f.flags \div 256, 0>>
        \o AtomRef(f.name)
        \o Leb(f.nloc) \o Leb(0) \o Leb(f.nloc) \o Leb(1)
        \o Leb(f.ncv) \o Leb(0) \o Leb(Len(f.code)) \o Leb(f.nloc)
        \o Concat([j \in 1..f.nloc |-> EncodeLocal(j)])
        \o Concat([j \in 1..f.ncv |-> EncodeClosureVar(j)])
        \o f.code
        \o (IF flag(f.flags, 9) = 1 THEN EncodeDebug ELSE <<>>)

FuncLists == UNION {[1..n -> FuncShapes] : n \in 0..MaxFuncs}

EncodeBuffer(version, natoms, module, funcs) ==
    <<version>> \o EncodeHeader(natoms) \o module
        \o Concat([j \in 1..Len(funcs) |-> EncodeFunction(funcs[j])])

\* The well-formed buffers.
ValidBuffers ==
    { EncodeBuffer(VERSION, n, m, fs) :
        n \in 0..MaxAtoms, m \in ModuleChoices, fs \in FuncLists }

Prefixes(b) == { SubSeq(b, 1, k) : k \in 0..Len(b) }

InvalidBuffers ==
    UNION { { <<VERSION - 1>> \o Tail(b), b \o <<1>>, b \o <<14>> } : b \in ValidBuffers }
    \cup { <<VERSION, 1, 2, 255>>, <<VERSION, 1, 4, 195, 169>>,
           <<VERSION, 255, 255, 255, 255, 127>>, <<VERSION, 128>> }

Buffers == UNION { Prefixes(b) : b \in ValidBuffers } \cup InvalidBuffers

(***************************************************************************)
(* TranslationBuilder::translate(buffer): one step per item of the         *)
(* iterator Parser::new().parse_buffer(buffer).  `stream` records the      *)
(* items the iterator has yielded, each with the offset `at` its parse     *)
(* began at.                                                               *)
(***************************************************************************)
Item(p, at) == [kind |-> p.kind, body |-> p.body, at |-> at]

DecoderInit ==
    /\ data \in Buffers
    /\ parser = Parser_new
    /\ stream = <<>>
    /\ translation = DefaultTranslation
    /\ builder = TranslationBuilder_new
    /\ pc = "translate"
    /\ ret = NoReturn

\* The iterator yields Ok(payload) and the match arm stores it.
translate_payload ==
    /\ pc = "translate"
    /\ ~parser.done
    /\ \E r \in {parse(parser, data)} :
          /\ r.outcome = "Ok"
          /\ parser' = r.parser
          /\ stream' = Append(stream, Item(r.item, parser.offset))
          /\ IF ArmIndexes(r.item) /\ ~CurrentInRange(builder)
             THEN /\ pc' = "panicked"
                  /\ UNCHANGED <<translation, builder>>
             ELSE LET a == translate_arm(translation, builder, r.item)
                  IN /\ translation' = a.t
                     /\ builder' = a.b
                     /\ pc' = pc
    /\ UNCHANGED <<data, ret, not_decoder_vars>>

\* The iterator yields Err(e): `payload?` returns it, the local translation
\* is dropped, the builder keeps what it holds.
translate_error ==
    /\ pc = "translate"
    /\ ~parser.done
    /\ \E r \in {parse(parser, data)} :
          /\ r.outcome = "Err"
          /\ parser' = r.parser
          /\ stream' = Append(stream, Item(r.item, parser.offset))
          /\ ret' = [status |-> "Err", error |-> r.item.body,
                     translation |-> DefaultTranslation]
    /\ translation' = DefaultTranslation
    /\ pc' = "returned"
    /\ UNCHANGED <<data, builder, not_decoder_vars>>

\* A slice index out of range aborts the call.
translate_panic ==
    /\ pc = "translate"
    /\ ~parser.done
    /\ \E r \in {parse(parser, data)} :
          /\ r.outcome = "Panic"
          /\ parser' = r.parser
    /\ pc' = "panicked"
    /\ UNCHANGED <<data, stream, translation, builder, ret, not_decoder_vars>>

\* The iterator is done: translate returns Ok(translation), the local one.
translate_return ==
    /\ pc = "translate"
    /\ parser.done
    /\ ret' = [status |-> "Ok", error |-> <<>>, translation |-> translation]
    /\ pc' = "returned"
    /\ UNCHANGED <<data, parser, stream, translation, builder, not_decoder_vars>>

(***************************************************************************)
(* crates/quickpars/src/op.rs: Opcode::from_reader                         *)
(***************************************************************************)
\* For the opcode byte b, OpTable[b + 1] is the variant from_reader builds
\* and the widths in bytes of the immediates it reads, in the order read.
OpTable ==
    <<
    <<"Invalid", <<>>>>, <<"PushI32", <<4>>>>, <<"PushConst", <<4>>>>, <<"FClosure", <<4>>>>,
    <<"PushAtomValue", <<4>>>>, <<"PrivateSymbol", <<4>>>>, <<"Undefined", <<>>>>,
    <<"Null", <<>>>>, <<"PushThis", <<>>>>, <<"PushFalse", <<>>>>, <<"PushTrue", <<>>>>,
    <<"Object", <<>>>>, <<"SpecialObject", <<1>>>>, <<"Rest", <<2>>>>, <<"Drop", <<>>>>,
    <<"Nip", <<>>>>, <<"Nip1", <<>>>>, <<"Dup", <<>>>>, <<"Dup1", <<>>>>, <<"Dup2", <<>>>>,
    <<"Dup3", <<>>>>, <<"Insert2", <<>>>>, <<"Insert3", <<>>>>, <<"Insert4", <<>>>>,
    <<"Perm3", <<>>>>, <<"Perm4", <<>>>>, <<"Perm5", <<>>>>, <<"Swap", <<>>>>, <<"Swap2", <<>>>>,
    <<"Rot3L", <<>>>>, <<"Rot3R", <<>>>>, <<"Rot4L", <<>>>>, <<"Rot5L", <<>>>>,
    <<"CallConstructor", <<2>>>>, <<"Call", <<2>>>>, <<"TailCall", <<2>>>>,
    <<"CallMethod", <<2>>>>, <<"TailCallMethod", <<2>>>>, <<"ArrayFrom", <<2>>>>,
    <<"Apply", <<2>>>>, <<"Return", <<>>>>, <<"ReturnUndef", <<>>>>, <<"CheckCtorReturn", <<>>>>,
    <<"CheckCtor", <<>>>>, <<"CheckBrand", <<>>>>, <<"AddBrand", <<>>>>, <<"ReturnAsync", <<>>>>,
    <<"Throw", <<>>>>, <<"ThrowError", <<4, 1>>>>, <<"Eval", <<2, 2>>>>, <<"ApplyEval", <<2>>>>,
    <<"Regexp", <<>>>>, <<"GetSuper", <<>>>>, <<"Import", <<>>>>, <<"CheckVar", <<4>>>>,
    <<"GetVarUndef", <<4>>>>, <<"GetVar", <<4>>>>, <<"PutVar", <<4>>>>, <<"PutVarInit", <<4>>>>,
    <<"PutVarStrict", <<4>>>>, <<"GetRefValue", <<>>>>, <<"PutRefValue", <<>>>>,
    <<"DefineVar", <<4, 1>>>>, <<"CheckDefineVar", <<4, 1>>>>, <<"DefineFunc", <<4, 1>>>>,
    <<"GetField", <<4>>>>, <<"GetField2", <<4>>>>, <<"PutField", <<4>>>>,
    <<"GetPrivateField", <<>>>>, <<"PutPrivateField", <<>>>>, <<"DefinePrivateField", <<>>>>,
    <<"GetArrayEl", <<>>>>, <<"GetArrayEl2", <<>>>>, <<"PutArrayEl", <<>>>>,
    <<"GetSuperValue", <<>>>>, <<"PutSuperValue", <<>>>>, <<"DefineField", <<4>>>>,
    <<"SetName", <<4>>>>, <<"SetNameComputed", <<>>>>, <<"SetProto", <<>>>>,
    <<"SetHomeObject", <<>>>>, <<"DefineArrayEl", <<>>>>, <<"Append", <<>>>>,
    <<"CopyDataProperties", <<1>>>>, <<"DefineMethod", <<4, 1>>>>,
    <<"DefineMethodComputed", <<1>>>>, <<"DefineClass", <<4, 1>>>>,
    <<"DefineClassComputed", <<4, 1>>>>, <<"GetLoc", <<2>>>>, <<"PutLoc", <<2>>>>,
    <<"SetLoc", <<2>>>>, <<"GetArg", <<2>>>>, <<"PutArg", <<2>>>>, <<"SetArg", <<2>>>>,
    <<"GetVarRef", <<2>>>>, <<"PutVarRef", <<2>>>>, <<"SetVarRef", <<2>>>>,
    <<"SetLocUninit", <<2>>>>, <<"GetLocCheck", <<2>>>>, <<"PutLocCheck", <<2>>>>,
    <<"PutLocCheckInit", <<2>>>>, <<"GetLocCheckThis", <<2>>>>, <<"GetVarRefCheck", <<2>>>>,
    <<"PutVarRefCheck", <<2>>>>, <<"PutVarRefCheckInit", <<2>>>>, <<"CloseLoc", <<2>>>>,
    <<"IfFalse", <<4>>>>, <<"IfTrue", <<4>>>>, <<"GoTo", <<4>>>>, <<"Catch", <<4>>>>,
    <<"GoSub", <<4>>>>, <<"Ret", <<>>>>, <<"NipCatch", <<>>>>, <<"ToObject", <<>>>>,
    <<"ToPropKey", <<>>>>, <<"ToPropKey2", <<>>>>, <<"WithGetVar", <<4, 4, 1>>>>,
    <<"WithPutVar", <<4, 4, 1>>>>, <<"WithDeleteVar", <<4, 4, 1>>>>,
    <<"WithMakeRef", <<4, 4, 1>>>>, <<"WithGetRef", <<4, 4, 1>>>>,
    <<"WithGetRefUndef", <<4, 4, 1>>>>, <<"MakeLocRef", <<4, 2>>>>, <<"MakeArgRef", <<4, 2>>>>,
    <<"MakeVarRefRef", <<4, 2>>>>, <<"MakeVarRef", <<4>>>>, <<"ForInStart", <<>>>>,
    <<"ForOfStart", <<>>>>, <<"ForAwaitOfStart", <<>>>>, <<"ForInNext", <<>>>>,
    <<"ForOfNext", <<1>>>>, <<"IteratorCheckObject", <<>>>>, <<"IteratorGetValueDone", <<>>>>,
    <<"IteratorClose", <<>>>>, <<"IteratorNext", <<>>>>, <<"IteratorCall", <<1>>>>,
    <<"InitialYield", <<>>>>, <<"Yield", <<>>>>, <<"YieldStar", <<>>>>, <<"AsyncYieldStar", <<>>>>,
    <<"Await", <<>>>>, <<"Neg", <<>>>>, <<"Plus", <<>>>>, <<"Dec", <<>>>>, <<"Inc", <<>>>>,
    <<"PostDec", <<>>>>, <<"PostInc", <<>>>>, <<"DecLoc", <<1>>>>, <<"IncLoc", <<1>>>>,
    <<"AddLoc", <<1>>>>, <<"Not", <<>>>>, <<"LNot", <<>>>>, <<"TypeOf", <<>>>>, <<"Delete", <<>>>>,
    <<"DeleteVar", <<4>>>>, <<"Mul", <<>>>>, <<"Div", <<>>>>, <<"Mod", <<>>>>, <<"Add", <<>>>>,
    <<"Sub", <<>>>>, <<"Pow", <<>>>>, <<"Shl", <<>>>>, <<"Sar", <<>>>>, <<"Shr", <<>>>>,
    <<"Lt", <<>>>>, <<"Lte", <<>>>>, <<"Gt", <<>>>>, <<"Gte", <<>>>>, <<"InstanceOf", <<>>>>,
    <<"In", <<>>>>, <<"Eq", <<>>>>, <<"Neq", <<>>>>, <<"StrictEq", <<>>>>, <<"StrictNeq", <<>>>>,
    <<"And", <<>>>>, <<"Xor", <<>>>>, <<"Or", <<>>>>, <<"UndefOrNull", <<>>>>,
    <<"PrivateIn", <<>>>>, <<"MulPow10", <<>>>>, <<"MathMod", <<>>>>, <<"Nop", <<>>>>,
    <<"PushMinus1", <<>>>>, <<"Push0", <<>>>>, <<"Push1", <<>>>>, <<"Push2", <<>>>>,
    <<"Push3", <<>>>>, <<"Push4", <<>>>>, <<"Push5", <<>>>>, <<"Push6", <<>>>>, <<"Push7", <<>>>>,
    <<"PushI8", <<1>>>>, <<"PushI16", <<2>>>>, <<"PushConst8", <<1>>>>, <<"FClosure8", <<1>>>>,
    <<"PushEmptyString", <<>>>>, <<"GetLoc8", <<1>>>>, <<"PutLoc8", <<1>>>>, <<"SetLoc8", <<1>>>>,
    <<"GetLoc0", <<>>>>, <<"GetLoc1", <<>>>>, <<"GetLoc2", <<>>>>, <<"GetLoc3", <<>>>>,
    <<"PutLoc0", <<>>>>, <<"PutLoc1", <<>>>>, <<"PutLoc2", <<>>>>, <<"PutLoc3", <<>>>>,
    <<"SetLoc0", <<>>>>, <<"SetLoc1", <<>>>>, <<"SetLoc2", <<>>>>, <<"SetLoc3", <<>>>>,
    <<"GetArg0", <<>>>>, <<"GetArg1", <<>>>>, <<"GetArg2", <<>>>>, <<"GetArg3", <<>>>>,
    <<"PutArg0", <<>>>>, <<"PutArg1", <<>>>>, <<"PutArg2", <<>>>>, <<"PutArg3", <<>>>>,
    <<"SetArg0", <<>>>>, <<"SetArg1", <<>>>>, <<"SetArg2", <<>>>>, <<"SetArg3", <<>>>>,
    <<"GetVarRef0", <<>>>>, <<"GetVarRef1", <<>>>>, <<"GetVarRef2", <<>>>>, <<"GetVarRef3", <<>>>>,
    <<"PutVarRef0", <<>>>>, <<"PutVarRef1", <<>>>>, <<"PutVarRef2", <<>>>>, <<"PutVarRef3", <<>>>>,
    <<"SetVarRef0", <<>>>>, <<"SetVarRef1", <<>>>>, <<"SetVarRef2", <<>>>>, <<"SetVarRef3", <<>>>>,
    <<"GetLength", <<>>>>, <<"IfFalse8", <<1>>>>, <<"IfTrue8", <<1>>>>, <<"GoTo8", <<1>>>>,
    <<"GoTo16", <<2>>>>, <<"Call0", <<>>>>, <<"Call1", <<>>>>, <<"Call2", <<>>>>,
    <<"Call3", <<>>>>, <<"IsUndefined", <<>>>>, <<"IsNull", <<>>>>, <<"TypeOfIsUndefined", <<>>>>,
    <<"TypeOfIsFunction", <<>>>>
    >>

OpName(byte) == OpTable[byte + 1][1]

OpWidths(byte) == OpTable[byte + 1][2]

\* The variants of `enum Opcode` in the order they are declared: the enum is
\* #[repr(u8)], Invalid = 0, and every later variant is one more than the
\* one before it.
OpcodeVariants ==
    <<
    "Invalid", "PushI32", "PushConst", "FClosure", "PushAtomValue", "PrivateSymbol",
    "Undefined", "Null", "PushThis", "PushFalse", "PushTrue", "Object", "SpecialObject",
    "Rest", "Drop", "Nip", "Nip1", "Dup", "Dup1", "Dup2", "Dup3", "Insert2", "Insert3",
    "Insert4", "Perm3", "Perm4", "Perm5", "Swap", "Swap2", "Rot3L", "Rot3R", "Rot4L",
    "Rot5L", "CallConstructor", "Call", "TailCall", "CallMethod", "TailCallMethod",
    "ArrayFrom", "Apply", "Return", "ReturnUndef", "CheckCtorReturn", "CheckCtor",
    "CheckBrand", "AddBrand", "ReturnAsync", "Throw", "ThrowError", "Eval", "ApplyEval",
    "Regexp", "GetSuper", "Import", "CheckVar", "GetVarUndef", "GetVar", "PutVar",
    "PutVarInit", "PutVarStrict", "GetRefValue", "PutRefValue", "DefineVar",
    "CheckDefineVar", "DefineFunc", "GetField", "GetField2", "PutField",
    "GetPrivateField", "PutPrivateField", "DefinePrivateField", "GetArrayEl",
    "GetArrayEl2", "PutArrayEl", "GetSuperValue", "PutSuperValue", "DefineField",
    "SetName", "SetNameComputed", "SetProto", "SetHomeObject", "DefineArrayEl",
    "Append", "CopyDataProperties", "DefineMethod", "DefineMethodComputed",
    "DefineClass", "DefineClassComputed", "GetLoc", "PutLoc", "SetLoc", "GetArg",
    "PutArg", "SetArg", "GetVarRef", "PutVarRef", "SetVarRef", "SetLocUninit",
    "GetLocCheck", "PutLocCheck", "PutLocCheckInit", "GetLocCheckThis",
    "GetVarRefCheck", "PutVarRefCheck", "PutVarRefCheckInit", "CloseLoc", "IfFalse",
    "IfTrue", "GoTo", "Catch", "GoSub", "Ret", "NipCatch", "ToObject", "ToPropKey",
    "ToPropKey2", "WithGetVar", "WithPutVar", "WithDeleteVar", "WithMakeRef",
    "WithGetRef", "WithGetRefUndef", "MakeLocRef", "MakeArgRef", "MakeVarRefRef",
    "MakeVarRef", "ForInStart", "ForOfStart", "ForAwaitOfStart", "ForInNext",
    "ForOfNext", "IteratorCheckObject", "IteratorGetValueDone", "IteratorClose",
    "IteratorNext", "IteratorCall", "InitialYield", "Yield", "YieldStar",
    "AsyncYieldStar", "Await", "Neg", "Plus", "Dec", "Inc", "PostDec", "PostInc",
    "DecLoc", "IncLoc", "AddLoc", "Not", "LNot", "TypeOf", "Delete", "DeleteVar", "Mul",
    "Div", "Mod", "Add", "Sub", "Pow", "Shl", "Sar", "Shr", "Lt", "Lte", "Gt", "Gte",
    "InstanceOf", "In", "Eq", "Neq", "StrictEq", "StrictNeq", "And", "Xor", "Or",
    "UndefOrNull", "PrivateIn", "MulPow10", "MathMod", "Nop", "PushMinus1", "Push0",
    "Push1", "Push2", "Push3", "Push4", "Push5", "Push6", "Push7", "PushI8", "PushI16",
    "PushConst8", "FClosure8", "PushEmptyString", "GetLoc8", "PutLoc8", "SetLoc8",
    "GetLoc0", "GetLoc1", "GetLoc2", "GetLoc3", "PutLoc0", "PutLoc1", "PutLoc2",
    "PutLoc3", "SetLoc0", "SetLoc1", "SetLoc2", "SetLoc3", "GetArg0", "GetArg1",
    "GetArg2", "GetArg3", "PutArg0", "PutArg1", "PutArg2", "PutArg3", "SetArg0",
    "SetArg1", "SetArg2", "SetArg3", "GetVarRef0", "GetVarRef1", "GetVarRef2",
    "GetVarRef3", "PutVarRef0", "PutVarRef1", "PutVarRef2", "PutVarRef3", "SetVarRef0",
    "SetVarRef1", "SetVarRef2", "SetVarRef3", "GetLength", "IfFalse8", "IfTrue8",
    "GoTo8", "GoTo16", "Call0", "Call1", "Call2", "Call3", "IsUndefined", "IsNull",
    "TypeOfIsUndefined", "TypeOfIsFunction"
    >>

\* discriminant(): the first byte of the value, the tag of its variant.
discriminant(op) == CHOOSE b \in 0..(Len(OpcodeVariants) - 1) : OpcodeVariants[b + 1] = op.name

\* The match arms of name_from_byte, in the order of their bytes.
NameTable ==
    <<
    "Invalid", "PushI32", "PushConst", "FClosure", "PushAtomValue", "PrivateSymbol",
    "Undefined", "Null", "PushThis", "PushFalse", "PushTrue", "Object", "SpecialObject",
    "Rest", "Drop", "Nip", "Nip1", "Dup", "Dup1", "Dup2", "Dup3", "Insert2", "Insert3",
    "Insert4", "Perm3", "Perm4", "Perm5", "Swap", "Swap2", "Rot3L", "Rot3R", "Rot4L",
    "Rot5L", "CallConstructor", "Call", "TailCall", "CallMethod", "TailCallMethod",
    "ArrayFrom", "Apply", "Return", "ReturnUndef", "CheckCtorReturn", "CheckCtor",
    "CheckBrand", "AddBrand", "ReturnAsync", "Throw", "ThrowError", "Eval", "ApplyEval",
    "Regexp", "GetSuper", "Import", "CheckVar", "GetVarUndef", "GetVar", "PutVar",
    "PutVarInit", "PutVarStrict", "GetRefValue", "PutRefValue", "DefineVar",
    "CheckDefineVar", "DefineFunc", "GetField", "GetField2", "PutField",
    "GetPrivateField", "PutPrivateField", "DefinePrivateField", "GetArrayEl",
    "GetArrayEl2", "PutArrayEl", "GetSuperValue", "PutSuperValue", "DefineField",
    "SetName", "SetNameComputed", "SetProto", "SetHomeObject", "DefineArrayEl",
    "Append", "CopyDataProperties", "DefineMethod", "DefineMethodComputed",
    "DefineClass", "DefineClassComputed", "GetLoc", "PutLoc", "SetLoc", "GetArg",
    "PutArg", "SetArg", "GetVarRef", "PutVarRef", "SetVarRef", "SetLocUninit",
    "GetLocCheck", "PutLocCheck", "PutLocCheckInit", "GetLocCheckThis",
    "GetVarRefCheck", "PutVarRefCheck", "PutVarRefCheckInit", "CloseLoc", "IfFalse",
    "IfTrue", "GoTo", "Catch", "GoSub", "Ret", "NipCatch", "ToObject", "ToPropKey",
    "ToPropKey2", "WithGetVar", "WithPutVar", "WithDeleteVar", "WithMakeRef",
    "WithGetRef", "WithGetRefUndef", "MakeLocRef", "MakeArgRef", "MakeVarRefRef",
    "MakeVarRef", "ForInStart", "ForOfStart", "ForAwaitOfStart", "ForInNext",
    "ForOfNext", "IteratorCheckObject", "IteratorGetValueDone", "IteratorClose",
    "IteratorNext", "IteratorCall", "InitialYield", "Yield", "YieldStar",
    "AsyncYieldStar", "Await", "Neg", "Plus", "Dec", "Inc", "PostDec", "PostInc",
    "DecLoc", "IncLoc", "AddLoc", "Not", "LNot", "TypeOf", "Delete", "DeleteVar", "Mul",
    "Div", "Mod", "Add", "Sub", "Pow", "Shl", "Sar", "Shr", "Lt", "Lte", "Gt", "Gte",
    "InstanceOf", "In", "Eq", "Neq", "StrictEq", "StrictNeq", "And", "Xor", "Or",
    "UndefOrNull", "PrivateIn", "MulPow10", "MathMod", "Nop", "PushMinus1", "Push0",
    "Push1", "Push2", "Push3", "Push4", "Push5", "Push6", "Push7", "PushI8", "PushI16",
    "PushConst8", "FClosure8", "PushEmptyString", "GetLoc8", "PutLoc8", "SetLoc8",
    "GetLoc0", "GetLoc1", "GetLoc2", "GetLoc3", "PutLoc0", "PutLoc1", "PutLoc2",
    "PutLoc3", "SetLoc0", "SetLoc1", "SetLoc2", "SetLoc3", "GetArg0", "GetArg1",
    "GetArg2", "GetArg3", "PutArg0", "PutArg1", "PutArg2", "PutArg3", "SetArg0",
    "SetArg1", "SetArg2", "SetArg3", "GetVarRef0", "GetVarRef1", "GetVarRef2",
    "GetVarRef3", "PutVarRef0", "PutVarRef1", "PutVarRef2", "PutVarRef3", "SetVarRef0",
    "SetVarRef1", "SetVarRef2", "SetVarRef3", "GetLength", "IfFalse8", "IfTrue8",
    "GoTo8", "GoTo16", "Call0", "Call1", "Call2", "Call3", "IsUndefined", "IsNull",
    "TypeOfIsUndefined", "TypeOfIsFunction"
    >>

name_from_byte(byte) == IF byte < Len(NameTable) THEN NameTable[byte + 1] ELSE "Unknown"

(***************************************************************************)
(* Printer::print_op: the first word written on an operator's line, per    *)
(* variant, in the order of the enum's discriminants.                      *)
(***************************************************************************)
PrintMnemonics ==
    << "Invalid", "PushI32", "PushI32", "FClosure", "PushAtomValue",
       "PrivateSymbol", "Undefined", "Null", "PushThis", "PushFalse",
       "PushTrue", "Object", "SpecialObject", "Rest", "Drop", "Nip", "Nip1",
       "Dup", "Dup1", "Dup2", "Dup3", "Insert2", "Insert3", "Insert4",
       "Perm3", "Perm4", "Perm5", "Swap", "Swap2", "Rot3L", "Rot3R", "Rot4L",
       "Rot5L", "CallConstructor", "Call", "TailCall", "CallMethod",
       "TailCallMethod", "ArrayFrom", "Apply", "Return", "ReturnUndef",
       "CheckCtorReturn", "CheckCtor", "CheckBrand", "AddBrand",
       "ReturnAsync", "Throw", "ThrowError", "Eval", "ApplyEval", "Regexp",
       "GetSuper", "Import", "CheckVar", "GetVarUndef", "GetVar", "PutVar",
       "PutVarInit", "PutVarStrict", "GetRefValue", "PutRefValue",
       "DefineVar", "CheckDefineVar", "DefineFunc", "GetField", "GetField2",
       "PutField", "GetPrivateField", "PutPrivateField",
       "DefinePrivateField", "GetArrayEl", "GetArrayEl2", "PutArrayEl",
       "GetSuperValue", "PutSuperValue", "DefineField", "SetName",
       "SetNameComputed", "SetProto", "SetHomeObject", "DefineArrayEl",
       "Append", "CopyDataProperties", "DefineMethod",
       "DefineMethodComputed", "DefineClass", "DefineClassComputed",
       "GetLoc", "PutLoc", "SetLoc", "GetArg", "PutArg", "SetArg",
       "GetVarRef", "PutVarRef", "SetVarRef", "SetLocUninit", "GetLocCheck",
       "PutLocCheck", "PutLocCheckInit", "GetLocCheckThis", "GetVarRefCheck",
       "PutVarRefCheck", "PutVarRefCheckInit", "CloseLoc", "IfFalse",
       "IfTrue", "GoTo", "Catch", "GoSub", "Ret", "NipCatch", "ToObject",
       "ToPropKey", "ToPropKey2", "WithGetVar", "WithPutVar",
       "WithDeleteVar", "WithMakeRef", "WithGetRef", "WithGetRefUndef",
       "MakeLocRef", "MakeArgRef", "MakeVarRefRef", "MakeVarRef",
       "ForInStart", "ForOfStart", "ForAwaitOfStart", "ForInNext",
       "ForOfNext", "IteratorCheckObject", "IteratorGetValueDone",
       "IteratorClose", "IteratorNext", "IteratorCall", "InitialYield",
       "Yield", "YieldStar", "AsyncYieldStar", "Await", "Neg", "Plus", "Dec",
       "Inc", "PostDec", "PostInc", "DecLoc", "IncLoc", "AddLoc", "Not",
       "LNot", "TypeOf", "Delete", "DeleteVar", "Mul", "Div", "Mod", "Add",
       "Sub", "Pow", "Shl", "Sar", "Shr", "Lt", "Lte", "Gt", "Gte",
       "InstanceOf", "In", "Eq", "Neq", "StrictEq", "StrictNeq", "And",
       "Xor", "Or", "UndefOrNull", "PrivateIn", "MulPow10", "MathMod", "Nop",
       "PushMinus1", "Push0", "Push1", "Push2", "Push3", "Push4", "Push5",
       "Push6", "Push7", "PushI8", "PushI16", "PushConst8", "FClosure8",
       "PushEmptyString", "GetLoc8", "PutLoc8", "SetLoc8", "GetLoc0",
       "GetLoc1", "GetLoc2", "GetLoc3", "PutLoc0", "PutLoc1", "PutLoc2",
       "PutLoc3", "SetLoc0", "SetLoc1", "SetLoc2", "SetLoc3", "GetArg0",
       "GetArg1", "GetArg2", "GetArg3", "PutArg0", "PutArg1", "PutArg2",
       "PutArg3", "SetArg0", "SetArg1", "SetArg2", "SetArg3", "GetVarRef0",
       "GetVarRef1", "GetVarRef2", "GetVarRef3", "PutVarRef0", "PutVarRef1",
       "PutVarRef2", "PutVarRef3", "SetVarRef0", "SetVarRef1", "SetVarRef2",
       "SetVarRef3", "GetLength", "IfFalse8", "IfTrue8", "GoTo8", "GoTo16",
       "Call0", "Call1", "Call2", "Call3", "IsUndefined", "IsNull",
       "TypeOfIsUndefined", "TypeOfIsFunction" >>

print_op(op) == PrintMnemonics[discriminant(op) + 1]

\* Little-endian integers of the widths from_reader casts.
AsU16(bs) == bs[1] + 256 * bs[2]

AsI8(bs) == IF bs[1] < 128 THEN bs[1] ELSE bs[1] - 256

AsI16(bs) == bs[1] + 256 * (IF bs[2] < 128 THEN bs[2] ELSE bs[2] - 256)

AsI32(bs) ==
    bs[1] + 256 * bs[2] + 65536 * bs[3]
        + 16777216 * (IF bs[4] < 128 THEN bs[4] ELSE bs[4] - 256)

RECURSIVE read_imms(_, _)
read_imms(r, widths) ==
    IF widths = <<>> THEN Ok(<<>>, r)
    ELSE LET h == read(r, Head(widths))
         IN IF h.err # "none" THEN h
            ELSE LET t == read_imms(h.rd, Tail(widths))
                 IN IF t.err # "none" THEN t
                    ELSE Ok(<<h.val>> \o t.val, t.rd)

BranchBytes == {106, 107, 108, 130, 236, 237, 238, 239}

\* The offset field of a branch variant, as from_reader stores it.
BranchOffset(byte, imms) ==
    CASE byte \in {106, 107, 108}      -> AsI32(imms[1])
      [] byte \in {130, 236, 237, 238} -> AsI8(imms[1])
      [] byte = 239                    -> AsI16(imms[1])
      [] OTHER                         -> 0

\* The scope immediate of Eval (the second u16) and ApplyEval (the first).
ScopeImm(byte, imms) == IF byte = 49 THEN AsU16(imms[2]) ELSE AsU16(imms[1])

\* The decoded operator: the pc, the opcode byte, the variant, the raw
\* immediates, and the fields from_reader computes from them.
Op(pc0, byte, imms, offset, value) ==
    [pc |-> pc0, byte |-> byte, name |-> OpName(byte), imms |-> imms,
     offset |-> offset, value |-> value]

\* from_reader(reader) in a build with or without overflow checks: `- 1` on
\* a zero scope aborts with the checks and wraps to 65535 without them.
from_reader(r, checks) ==
    LET pc0 == r.offset
        b == read_u8(r)
    IN IF b.err # "none" THEN Err(b.err, b.rd)
       ELSE IF b.val > 247 THEN Err("UnsupportedOpcode", b.rd)
       ELSE LET i == read_imms(b.rd, OpWidths(b.val))
            IN IF i.err # "none" THEN Err(i.err, i.rd)
               ELSE IF b.val = 1
                    THEN IF i.val[1][4] >= 128 THEN Err("TryFromInt", i.rd)
                         ELSE Ok(Op(pc0, b.val, i.val, 0, AsI32(i.val[1])), i.rd)
               ELSE IF b.val \in {49, 50}
                    THEN IF ScopeImm(b.val, i.val) = 0
                         THEN IF checks THEN Err("panic", i.rd)
                              ELSE Ok(Op(pc0, b.val, i.val, 0, 65535), i.rd)
                         ELSE Ok(Op(pc0, b.val, i.val, 0, ScopeImm(b.val, i.val) - 1), i.rd)
               ELSE Ok(Op(pc0, b.val, i.val,
                          BranchOffset(b.val, i.val), 0), i.rd)

(***************************************************************************)
(* The operator streams the operator decoder is run on: up to MaxOps       *)
(* encoded instructions, and every prefix of such a stream.                *)
(***************************************************************************)
LittleEndian(v, width) ==
    LET u == IF v >= 0 THEN v ELSE 256 + v
        fill == IF v >= 0 THEN 0 ELSE 255
    IN <<u>> \o [k \in 1..(width - 1) |-> fill]

Displacements == {5, -6}

Instructions ==
    { <<b>> \o LittleEndian(d, OpWidths(b)[1]) : b \in BranchBytes, d \in Displacements }
    \cup { <<41>>, <<211>>, <<255>>, <<1, 255, 255, 255, 255>>, <<50, 0, 0>>,
           <<49, 1, 0, 2, 0>> }

OpStreams ==
    UNION { { Concat(s) : s \in [1..n -> Instructions] } : n \in 0..MaxOps }

OpBuffers == UNION { Prefixes(b) : b \in OpStreams }

\* Every opcode byte followed by nine equal bytes, as many as the longest
\* immediates (u32, u32, u8) take.
SingleOps == { <<b>> \o [k \in 1..9 |-> f] : b \in 0..255, f \in {0, 255} }

(***************************************************************************)
(* Walking a function's operators, as Printer::print_func does:            *)
(* while !reader.done() { Opcode::from_reader(&mut reader)?; ... }         *)
(***************************************************************************)
OperatorInit ==
    /\ op_reader \in { BinaryReader_new(b) : b \in OpBuffers \cup SingleOps }
    /\ overflow_checks \in BOOLEAN
    /\ ops = <<>>
    /\ op_pc \in {"walk", "collect"}

walk_operator ==
    /\ op_pc = "walk"
    /\ ~done(op_reader)
    /\ LET r == from_reader(op_reader, overflow_checks)
       IN /\ r.err = "none"
          /\ op_reader' = r.rd
          /\ ops' = Append(ops, r.val)
    /\ UNCHANGED <<op_pc, overflow_checks, not_operator_vars>>

walk_error ==
    /\ op_pc = "walk"
    /\ ~done(op_reader)
    /\ LET r == from_reader(op_reader, overflow_checks)
       IN /\ r.err \notin {"none", "panic"}
          /\ op_reader' = r.rd
          /\ op_pc' = r.err
    /\ UNCHANGED <<ops, overflow_checks, not_operator_vars>>

walk_panic ==
    /\ op_pc = "walk"
    /\ ~done(op_reader)
    /\ LET r == from_reader(op_reader, overflow_checks)
       IN /\ r.err = "panic"
          /\ op_reader' = r.rd
    /\ op_pc' = "panicked"
    /\ UNCHANGED <<ops, overflow_checks, not_operator_vars>>

walk_done ==
    /\ op_pc = "walk"
    /\ done(op_reader)
    /\ op_pc' = "done"
    /\ UNCHANGED <<op_reader, ops, overflow_checks, not_operator_vars>>

(***************************************************************************)
(* Collecting a function's operators, as ProfileTraceParser::new does:     *)
(* while !reader.done() {                                                  *)
(*     if let Ok(op) = Opcode::from_reader(&mut reader) { push(op) } }     *)
(***************************************************************************)
collect_operator ==
    /\ op_pc = "collect"
    /\ ~done(op_reader)
    /\ \E r \in { from_reader(op_reader, overflow_checks) } :
          /\ r.err = "none"
          /\ op_reader' = r.rd
          /\ ops' = Append(ops, r.val)
    /\ UNCHANGED <<op_pc, overflow_checks, not_operator_vars>>

\* The failure is dropped and the loop goes on from where the reader is.
collect_skip ==
    /\ op_pc = "collect"
    /\ ~done(op_reader)
    /\ \E r \in { from_reader(op_reader, overflow_checks) } :
          /\ r.err \notin {"none", "panic"}
          /\ op_reader' = r.rd
    /\ UNCHANGED <<ops, op_pc, overflow_checks, not_operator_vars>>

collect_panic ==
    /\ op_pc = "collect"
    /\ ~done(op_reader)
    /\ \E r \in { from_reader(op_reader, overflow_checks) } :
          /\ r.err = "panic"
          /\ op_reader' = r.rd
    /\ op_pc' = "panicked"
    /\ UNCHANGED <<ops, overflow_checks, not_operator_vars>>

collect_done ==
    /\ op_pc = "collect"
    /\ done(op_reader)
    /\ op_pc' = "collected"
    /\ UNCHANGED <<op_reader, ops, overflow_checks, not_operator_vars>>

(***************************************************************************)
(* Opcode::report (and report of the trace parser): the arms of the        *)
(* short-form opcodes.  Each arm names four variants and takes the index   *)
(* as self.discriminant() less the arm's literal; the index picks the      *)
(* local, argument or closure variable whose name is rendered, and         *)
(* Opcode::report writes it after the arm's word ("GetArg{}").             *)
(***************************************************************************)
ShortForms ==
    << [variants |-> <<"GetLoc0", "GetLoc1", "GetLoc2", "GetLoc3">>,
        base |-> 199, word |-> "GetLoc"],
       [variants |-> <<"PutLoc0", "PutLoc1", "PutLoc2", "PutLoc3">>,
        base |-> 203, word |-> "PutLoc"],
       [variants |-> <<"SetLoc0", "SetLoc1", "SetLoc2", "SetLoc3">>,
        base |-> 207, word |-> "SetLoc"],
       [variants |-> <<"GetArg0", "GetArg1", "GetArg2", "GetArg3">>,
        base |-> 211, word |-> "GetArg"],
       [variants |-> <<"PutArg0", "PutArg1", "PutArg2", "PutArg3">>,
        base |-> 215, word |-> "PutArg"],
       [variants |-> <<"SetArg0", "SetArg1", "SetArg2", "SetArg3">>,
        base |-> 219, word |-> "SetArg"],
       [variants |-> <<"GetVarRef0", "GetVarRef1", "GetVarRef2", "GetVarRef3">>,
        base |-> 223, word |-> "GetVarRef"],
       [variants |-> <<"PutVarRef0", "PutVarRef1", "PutVarRef2", "PutVarRef3">>,
        base |-> 227, word |-> "PutVarRef"],
       [variants |-> <<"SetVarRef0", "SetVarRef1", "SetVarRef2", "SetVarRef3">>,
        base |-> 231, word |-> "SetVarRef"] >>

\* The arm of a variant: its position in ShortForms, 0 for a variant that
\* falls to another arm.
ShortFormArm(name) ==
    IF \E a \in 1..Len(ShortForms) : \E k \in 1..4 : ShortForms[a].variants[k] = name
    THEN CHOOSE a \in 1..Len(ShortForms) :
            \E k \in 1..4 : ShortForms[a].variants[k] = name
    ELSE 0

\* An index that every arm takes from the literal of the first.
short_form_index_from_199(op) ==
    IF ShortFormArm(op.name) = 0 THEN <<>>
    ELSE <<ShortForms[ShortFormArm(op.name)].word, discriminant(op) - 199>>

\* The word and the index a short-form arm renders with, <<>> for the
\* other arms.
short_form_index(op) ==
    IF ShortFormArm(op.name) = 0 THEN <<>>
    ELSE <<ShortForms[ShortFormArm(op.name)].word,
           discriminant(op) - ShortForms[ShortFormArm(op.name)].base>>

\* The collected operators are reported, each with what its arm computed.
report_operators ==
    /\ op_pc = "collected"
    /\ ops' = [i \in 1..Len(ops) |-> ops[i] @@ [short |-> short_form_index(ops[i])]]
    /\ op_pc' = "reported"
    /\ UNCHANGED <<op_reader, overflow_checks, not_operator_vars>>

(***************************************************************************)
(* crates/translate/src/lib.rs: the resolvers of a Translation.  A name is *)
(* <<"builtin", i>> for the string ATOM_NAMES[i] (ATOM_NAMES[0] is the     *)
(* string JS_ATOM_NULL) and <<"custom", bytes>> for a decoded string.      *)
(* An index out of range aborts: the result is "panic".                    *)
(***************************************************************************)
ROk(v) == [err |-> "none", val |-> v]

RPanic == [err |-> "panic", val |-> <<>>]

ATOM_NAMES(i) == <<"builtin", i>>

\* header.atoms[i]
atoms_index(atoms, i) ==
    IF i >= atoms.len THEN RPanic
    ELSE IF i < ATOM_NAMES_LEN THEN ROk(ATOM_NAMES(i))
    ELSE ROk(<<"custom", atoms.custom[i - ATOM_NAMES_LEN + 1]>>)

\* resolve_func_name without the constant pool offset.
resolve_func_name_no_offset(t, index, pool_index) ==
    LET target == IF pool_index # <<>>
                  THEN pool_index[1] + index
                  ELSE index
    IN IF target >= Len(t.module.functions) THEN RPanic
       ELSE atoms_index(t.header.atoms, t.module.functions[target + 1].header.name_index)

\* pool_index is <<>> for None and <<i>> for Some(i).
resolve_func_name(t, index, pool_index) ==
    LET target == IF pool_index # <<>>
                  THEN pool_index[1] + index + CONSTANT_POOL_OFFSET
                  ELSE index
    IN IF target >= Len(t.module.functions) THEN RPanic
       ELSE atoms_index(t.header.atoms, t.module.functions[target + 1].header.name_index)

resolve_closure_var_name(t, index, closure) ==
    IF index >= Len(t.module.functions) THEN RPanic
    ELSE IF closure >= Len(t.module.functions[index + 1].closure_vars) THEN RPanic
    ELSE atoms_index(t.header.atoms,
                     t.module.functions[index + 1].closure_vars[closure + 1][1])

resolve_local_name_index(func, local) ==
    IF local + func.header.arg_count >= Len(func.locals) THEN RPanic
    ELSE ROk(func.locals[local + func.header.arg_count + 1][1])

resolve_arg_name_index(func, local_index) ==
    IF local_index >= Len(func.locals) THEN RPanic
    ELSE ROk(func.locals[local_index + 1][1])

resolve_func_local_name(t, index, local_index) ==
    IF index >= Len(t.module.functions) THEN RPanic
    ELSE IF resolve_local_name_index(t.module.functions[index + 1], local_index).err # "none"
    THEN RPanic
    ELSE atoms_index(t.header.atoms,
                     resolve_local_name_index(t.module.functions[index + 1],
                                              local_index).val)

resolve_func_arg_name(t, index, local_index) ==
    IF index >= Len(t.module.functions) THEN RPanic
    ELSE IF resolve_arg_name_index(t.module.functions[index + 1], local_index).err # "none"
    THEN RPanic
    ELSE atoms_index(t.header.atoms,
                     resolve_arg_name_index(t.module.functions[index + 1],
                                            local_index).val)

resolve_atom_name(t, index) == atoms_index(t.header.atoms, index)

(***************************************************************************)
(* The translations and the calls the resolvers are run on.                *)
(***************************************************************************)
\* A function header with the name atom and the argument count given.
ResHeader(name_index, arg_count) ==
    [flags |-> 0, name_index |-> name_index, arg_count |-> arg_count,
     var_count |-> 0, defined_arg_count |-> arg_count, stack_size |-> 0,
     closure_var_count |-> 0, constant_pool_size |-> 0, bytecode_len |-> 0,
     local_count |-> 0]

\* Functions: unnamed with no locals; named by a built-in atom, with one
\* argument and one local; named by the first decoded atom, with one
\* closure variable.
ResFunctions ==
    { [FunctionTranslation_new(ResHeader(0, 0), 0) EXCEPT !.index = 0],
      [FunctionTranslation_new(ResHeader(6, 1), 0)
           EXCEPT !.locals = <<<<7, 0, 0, 0>>, <<ATOM_NAMES_LEN, 1, 0, 0>>>>],
      [FunctionTranslation_new(ResHeader(ATOM_NAMES_LEN, 0), 0)
           EXCEPT !.closure_vars = <<<<8, 0, 0>>>>] }

\* push_func gives the function at position i the index i.
Indexed(fs) == [i \in 1..Len(fs) |-> [fs[i] EXCEPT !.index = i - 1]]

ResTranslations ==
    { [header |-> [atom_count |-> n,
                   atoms |-> [len |-> ATOM_NAMES_LEN + n,
                              custom |-> [j \in 1..n |-> <<97 + j>>]]],
       module |-> [header |-> DefaultModuleSectionHeader, functions |-> Indexed(fs)]] :
      n \in 0..MaxAtoms,
      fs \in UNION { [1..k -> ResFunctions] : k \in 0..MaxFuncs } }

\* A call: the resolver, the function index, and the second index (the
\* pool index of resolve_func_name as <<>> or <<i>>; the atom index is the
\* first index of resolve_atom_name).
ResCalls ==
    { [fn |-> "resolve_func_name", index |-> i, second |-> pi] :
        i \in 0..MaxFuncs, pi \in {<<>>} \cup { <<k>> : k \in 0..MaxFuncs } }
    \cup { [fn |-> f, index |-> i, second |-> k] :
        f \in {"resolve_closure_var_name", "resolve_func_local_name",
               "resolve_func_arg_name"},
        i \in 0..MaxFuncs, k \in 0..2 }
    \cup { [fn |-> "resolve_atom_name", index |-> i, second |-> 0] :
        i \in {0, 1, ATOM_NAMES_LEN - 1, ATOM_NAMES_LEN, ATOM_NAMES_LEN + MaxAtoms} }

Resolve(t, c) ==
    CASE c.fn = "resolve_func_name" -> resolve_func_name(t, c.index, c.second)
      [] c.fn = "resolve_closure_var_name" -> resolve_closure_var_name(t, c.index, c.second)
      [] c.fn = "resolve_func_local_name" -> resolve_func_local_name(t, c.index, c.second)
      [] c.fn = "resolve_func_arg_name" -> resolve_func_arg_name(t, c.index, c.second)
      [] c.fn = "resolve_atom_name" -> resolve_atom_name(t, c.index)

NoTranslation == [translation |-> DefaultTranslation,
                  call |-> [fn |-> "none", index |-> 0, second |-> 0],
                  result |-> RPanic, status |-> "idle"]

ResolverIdle == resolver = NoTranslation

ResolverInit ==
    resolver \in { [translation |-> t, call |-> c, result |-> RPanic, status |-> "call"] :
                   t \in ResTranslations, c \in ResCalls }

\* The call returns a name.
resolve_returns ==
    /\ resolver.status = "call"
    /\ Resolve(resolver.translation, resolver.call).err = "none"
    /\ resolver' = [resolver EXCEPT
                       !.result = Resolve(resolver.translation, resolver.call),
                       !.status = "returned"]
    /\ UNCHANGED not_resolver_vars

\* An index is out of range: the call aborts.
resolve_panics ==
    /\ resolver.status = "call"
    /\ Resolve(resolver.translation, resolver.call).err = "panic"
    /\ resolver' = [resolver EXCEPT !.status = "panicked"]
    /\ UNCHANGED not_resolver_vars

(***************************************************************************)
(* crates/compiler/src/builder.rs: FunctionBuilder.  The function body is  *)
(* the one of the IR library: blocks and values are numbered from 0 in the *)
(* order they are added, a block is the sequence of its parameters, each a *)
(* pair <<type, value>>.                                                   *)
(***************************************************************************)
\* FunctionBody::default()
DefaultFunctionBody ==
    [rets |-> <<>>, locals |-> <<>>, blocks |-> <<>>, entry |-> ReservedIndex,
     values |-> 0]

\* add_block: the body after, and the new block.
add_block(body) ==
    [body |-> [body EXCEPT !.blocks = Append(body.blocks, <<>>)],
     block |-> Len(body.blocks)]

\* add_blockparam: a new value becomes the last parameter of the block.
add_blockparam(body, block, ty) ==
    [body EXCEPT !.blocks[block + 1] = Append(body.blocks[block + 1], <<ty, body.values>>),
                 !.values = body.values + 1]

\* Two return values.
rets_pair == <<"I64", "I64">>

\* rets(): every function returns one value, of type I64.
rets == <<"I64">>

RECURSIVE add_blockparams(_, _, _)
add_blockparams(body, block, types) ==
    IF types = <<>> THEN body
    ELSE add_blockparams(add_blockparam(body, block, Head(types)), block, Tail(types))

\* FunctionBuilder::new(translation): decl and local_to_value are maps
\* from locals, sealed is a set of blocks, block is <<>> for None and
\* <<current block>> for Some.
FunctionBuilder_new(header) ==
    [header |-> header, result |-> DefaultFunctionBody, decl |-> <<>>,
     block |-> <<>>, sealed |-> {}, stack |-> <<>>, control |-> <<>>,
     status |-> "handle_function_header"]

CurrentBlock_new(block) == [block |-> block, local_to_value |-> <<>>]

\* The maps are sequences of pairs <<key, value>> in insertion order.
Keys(map) == { map[i][1] : i \in 1..Len(map) }

\* declare_local: a local declared twice is an error.
declare_local(b, local) ==
    IF local \in Keys(b.decl) THEN [b EXCEPT !.status = "failed"]
    ELSE [b EXCEPT !.decl = Append(b.decl, <<local, "I64">>)]

\* set_local on the current block; there is an error when there is none.
set_local(b, local, val) ==
    IF b.block = <<>> THEN [b EXCEPT !.status = "failed"]
    ELSE [b EXCEPT !.block[1].local_to_value =
                       Append(SelectSeq(b.block[1].local_to_value,
                                        LAMBDA e : e[1] # local),
                              <<local, val>>)]

\* for i in 0..defined_arg_count: the argument becomes a parameter of the
\* entry block, is declared, and is set to the parameter's value.
RECURSIVE entry_args(_, _, _)
entry_args(b, entry, i) ==
    IF i >= b.header.defined_arg_count \/ b.status = "failed" THEN b
    ELSE entry_args(
           set_local(
             declare_local(
               [b EXCEPT !.result = add_blockparam(b.result, entry, "I64")], i),
             i, b.result.values),
           entry, i + 1)

\* for i in defined_arg_count..local_count: the local is declared.
RECURSIVE entry_locals(_, _)
entry_locals(b, i) ==
    IF i >= b.header.local_count \/ b.status = "failed" THEN b
    ELSE entry_locals(declare_local(b, i), i + 1)

is_block_sealed(b, block) == block \in b.sealed

(***************************************************************************)
(* build(): one step per call it makes; a call that fails ends it.         *)
(***************************************************************************)
BuilderInit ==
    fb \in { FunctionBuilder_new([ResHeader(0, a) EXCEPT !.defined_arg_count = d,
                                                         !.local_count = l]) :
             a \in 0..1, d \in 0..MaxLocals, l \in 0..MaxLocals }

handle_function_header ==
    /\ fb.status = "handle_function_header"
    /\ \E out \in { add_block([fb.result EXCEPT
                         !.rets = Append(fb.result.rets, rets[1]),
                         !.locals = fb.result.locals \o
                                    [i \in 1..fb.header.local_count |-> "I64"]]) } :
          fb' = [fb EXCEPT !.result = add_blockparams(out.body, out.block, rets),
                           !.control = Append(fb.control,
                                              [kind |-> "Block", block |-> out.block]),
                           !.status = "handle_entry"]
    /\ UNCHANGED not_compiler_vars

handle_entry ==
    /\ fb.status = "handle_entry"
    /\ \E e \in { add_block(fb.result) } :
       \E b \in { entry_args([fb EXCEPT !.result = [e.body EXCEPT !.entry = e.block],
                                        !.block = <<CurrentBlock_new(e.block)>>],
                             e.block, 0) } :
       \E c \in { entry_locals(b, b.header.defined_arg_count) } :
          fb' = IF c.status = "failed" THEN c
                ELSE [c EXCEPT !.status = "handle_operator"]
    /\ UNCHANGED not_compiler_vars

\* handle_operator does nothing and returns Ok.
handle_operator ==
    /\ fb.status = "handle_operator"
    /\ fb' = [fb EXCEPT !.status = "validate_blocks"]
    /\ UNCHANGED not_compiler_vars

\* validate_blocks fails on the first block that is not sealed; build
\* returns the signature and the body otherwise.
validate_blocks ==
    /\ fb.status = "validate_blocks"
    /\ fb' = [fb EXCEPT !.status =
                 IF \A block \in 0..(Len(fb.result.blocks) - 1) : is_block_sealed(fb, block)
                 THEN "returned" ELSE "failed"]
    /\ UNCHANGED not_compiler_vars

BuilderIdle == fb = [FunctionBuilder_new(ResHeader(0, 0)) EXCEPT !.status = "idle"]

(***************************************************************************)
(* crates/parsetrace/src/trace.rs: the events of a trace.  A string is the *)
(* sequence of its characters.                                             *)
(***************************************************************************)
\* A number is a pair of 16-bit halves <<high, low>> where it is compared
\* with the largest value of its type.
U32_MAX == <<65535, 65535>>

U8_MAX == <<0, 255>>

\* str::split: the pieces between the separators, at least one.
RECURSIVE split_from(_, _, _, _)
split_from(s, sep, i, piece) ==
    IF i > Len(s) THEN <<piece>>
    ELSE IF s[i] = sep THEN <<piece>> \o split_from(s, sep, i + 1, <<>>)
    ELSE split_from(s, sep, i + 1, Append(piece, s[i]))

split(s, sep) == split_from(s, sep, 1, <<>>)

\* str::lines: the pieces between the line feeds, without a last empty one.
lines(s) ==
    IF s = <<>> THEN <<>>
    ELSE IF s[Len(s)] = "\n" THEN split(SubSeq(s, 1, Len(s) - 1), "\n")
    ELSE split(s, "\n")

LowerDigits == <<"0", "1", "2", "3", "4", "5", "6", "7", "8", "9", "a", "b", "c", "d", "e", "f">>

UpperDigits == <<"0", "1", "2", "3", "4", "5", "6", "7", "8", "9", "A", "B", "C", "D", "E", "F">>

\* char::to_digit(radix): -1 when the character is no digit of the radix.
to_digit(c, radix) ==
    IF \E d \in 1..radix : LowerDigits[d] = c \/ UpperDigits[d] = c
    THEN (CHOOSE d \in 1..radix : LowerDigits[d] = c \/ UpperDigits[d] = c) - 1
    ELSE -1

ParseErr == [ok |-> FALSE, val |-> 0]

\* The digits one after the other; the value does not fit 32 bits when the
\* high half does not fit 16.
RECURSIVE parse_digits(_, _, _, _)
parse_digits(s, radix, high, low) ==
    LET next(h, l) ==
            IF h > 65535 THEN [ok |-> FALSE, high |-> 0, low |-> 0]
            ELSE parse_digits(Tail(s), radix, h, l)
        digit(d) ==
            IF d < 0 THEN [ok |-> FALSE, high |-> 0, low |-> 0]
            ELSE next(high * radix + ((low * radix + d) \div 65536),
                      (low * radix + d) % 65536)
    IN  IF s = <<>> THEN [ok |-> TRUE, high |-> high, low |-> low]
        ELSE digit(to_digit(Head(s), radix))

\* from_str_radix of an unsigned type: a sign "+" may come first, there is
\* at least one digit, and the value is at most max.
from_str_radix(s, radix, max) ==
    LET value(r) ==
            IF r.ok /\ (r.high < max[1] \/ (r.high = max[1] /\ r.low <= max[2]))
            THEN [ok |-> TRUE, val |-> r.high * 65536 + r.low]
            ELSE ParseErr
    IN  IF s = <<>> \/ s = <<"+">> \/ s = <<"-">> THEN ParseErr
        ELSE IF Head(s) = "+" THEN value(parse_digits(Tail(s), radix, 0, 0))
        ELSE value(parse_digits(s, radix, 0, 0))

parse_u32(s) == from_str_radix(s, 10, U32_MAX)

START == <<"S", "T", "A", "R", "T">>

END == <<"E", "N", "D">>

\* WasmCallFrame::default()
WasmCallFrame_default ==
    [wasm_func_id |-> 0, start_fuel_watermark |-> 0, calls |-> <<>>,
     end_fuel_watermark |-> 0]

\* build_call_frame: the frame after the events from cur_pos, and the
\* position after the last one that was read.  The unwraps and the indexing
\* of the parts of an event panic.
RECURSIVE build_call_frame(_, _, _)
build_call_frame(call_frame, trace_list, i) ==
    LET closed(new_frame, fuel_watermark) ==
            IF new_frame.end_fuel_watermark = 0
            THEN [new_frame EXCEPT !.end_fuel_watermark = fuel_watermark]
            ELSE new_frame
        child(r, fuel_watermark) ==
            IF r.status # "Ok" THEN r
            ELSE build_call_frame(
                   [call_frame EXCEPT !.calls = Append(@, closed(r.frame, fuel_watermark))],
                   trace_list, r.pos)
        event(wasm_func_id, is_start, fuel_watermark) ==
            IF wasm_func_id = call_frame.wasm_func_id /\ ~is_start
            THEN [status |-> "Ok",
                  frame |-> [call_frame EXCEPT !.end_fuel_watermark = fuel_watermark],
                  pos |-> i + 1]
            ELSE IF is_start
            THEN child(build_call_frame(
                         [WasmCallFrame_default EXCEPT
                             !.wasm_func_id = wasm_func_id,
                             !.start_fuel_watermark = fuel_watermark],
                         trace_list, i + 1),
                       fuel_watermark)
            ELSE [status |-> "Err", frame |-> call_frame, pos |-> i]
        parsed(parts) ==
            IF ~parse_u32(parts[1]).ok \/ Len(parts) < 3 THEN
                [status |-> "Panic", frame |-> call_frame, pos |-> i]
            ELSE IF ~parse_u32(parts[3]).ok THEN
                [status |-> "Panic", frame |-> call_frame, pos |-> i]
            ELSE event(parse_u32(parts[1]).val, parts[2] = <<"S">>,
                       parse_u32(parts[3]).val)
    IN  IF i >= Len(trace_list)
        THEN [status |-> "Ok", frame |-> call_frame, pos |-> i]
        ELSE parsed(split(trace_list[i + 1], ":"))

\* native_calls_from_str: the calls of a root frame.
native_calls_from_str(trace) ==
    LET calls(r) == [status |-> r.status, calls |-> r.frame.calls]
    IN  IF trace = <<>> THEN [status |-> "Ok", calls |-> <<>>]
        ELSE calls(build_call_frame(WasmCallFrame_default, split(trace, "|"), 0))

FunctionStart(recovered_func_id) ==
    [kind |-> "FunctionStart", recovered_func_id |-> recovered_func_id]

FunctionEnd(recovered_func_id) ==
    [kind |-> "FunctionEnd", recovered_func_id |-> recovered_func_id]

FunctionSetup(recovered_func_id, fuel_consumption) ==
    [kind |-> "FunctionSetup", recovered_func_id |-> recovered_func_id,
     fuel_consumption |-> fuel_consumption]

SystemSetup(fuel_consumption) ==
    [kind |-> "SystemSetup", fuel_consumption |-> fuel_consumption]

OpcodeRun(recovered_func_id, opcode_offset, opcode_byte, fuel_consumption, native_calls) ==
    [kind |-> "OpcodeRun", recovered_func_id |-> recovered_func_id,
     opcode_offset |-> opcode_offset, opcode_byte |-> opcode_byte,
     fuel_consumption |-> fuel_consumption, native_calls |-> native_calls]

NoEvent == [kind |-> "None"]

\* The event of fuel that belongs to no opcode, without the case of the
\* recovered function 0.
setup_event_of_function(recovered_func_id, fuel_consumption) ==
    FunctionSetup(recovered_func_id, fuel_consumption)

\* The event of fuel that belongs to no opcode.
setup_event(recovered_func_id, fuel_consumption) ==
    IF recovered_func_id = 0 THEN SystemSetup(fuel_consumption)
    ELSE FunctionSetup(recovered_func_id, fuel_consumption)

\* BytecodeTraceEvent::from_str
from_str(s) ==
    LET Event(event) == [status |-> "Ok", event |-> event]
        Invalid == [status |-> "Err", event |-> NoEvent]
        run(recovered_func_id, opcode_offset, opcode_byte, fuel_consumption, r) ==
            IF r.status = "Ok"
            THEN Event(OpcodeRun(recovered_func_id, opcode_offset, opcode_byte,
                              fuel_consumption, r.calls))
            ELSE [status |-> r.status, event |-> NoEvent]
        opcode(parts, recovered_func_id, opcode_offset, fuel_consumption, byte) ==
            IF ~byte.ok THEN Invalid
            ELSE IF opcode_offset = 0
            THEN Event(setup_event(recovered_func_id, fuel_consumption))
            ELSE run(recovered_func_id, opcode_offset, byte.val, fuel_consumption,
                     native_calls_from_str(IF Len(parts) >= 5 THEN parts[5] ELSE <<>>))
        fields(parts, id, offset, fuel) ==
            IF ~id.ok \/ ~offset.ok \/ ~fuel.ok THEN Invalid
            ELSE IF parts[3] = START THEN Event(FunctionStart(id.val))
            ELSE IF parts[3] = END THEN Event(FunctionEnd(id.val))
            ELSE opcode(parts, id.val, offset.val, fuel.val,
                        from_str_radix(parts[3], 16, U8_MAX))
        event(parts) ==
            IF Len(parts) < 4 THEN Invalid
            ELSE fields(parts, parse_u32(parts[1]), parse_u32(parts[2]),
                        parse_u32(parts[4]))
    IN  event(split(s, ","))

(***************************************************************************)
(* crates/parsetrace/src/utils.rs: generate_trace, one step per line.      *)
(***************************************************************************)
RECURSIVE Join(_, _)
Join(pieces, sep) ==
    IF Len(pieces) = 0 THEN <<>>
    ELSE IF Len(pieces) = 1 THEN pieces[1]
    ELSE pieces[1] \o <<sep>> \o Join(Tail(pieces), sep)

\* The native calls of a line: none, nested, unfinished, ended without a
\* start at the top and below it, and events that are not well formed.
NativeCalls ==
    { <<>>,
      <<"1", ":", "S", ":", "1", "|", "1", ":", "E", ":", "2">>,
      <<"1", ":", "S", ":", "1", "|", "2", ":", "S", ":", "2", "|", "2", ":", "E", ":", "3", "|", "1", ":", "E", ":", "4">>,
      <<"1", ":", "S", ":", "1">>,
      <<"0", ":", "S", ":", "1", "|", "0", ":", "E", ":", "2">>,
      <<"1", ":", "S", ":", "3", "|", "1", ":", "E", ":", "0">>,
      <<"0", ":", "E", ":", "5">>,
      <<"1", ":", "E", ":", "5">>,
      <<"0", ":", "E", ":", "5", "|", "1", ":", "S", ":", "1">>,
      <<"1", ":", "S", ":", "1", "|", "2", ":", "E", ":", "2">>,
      <<"1", ":", "S", ":", "1", "|", "1", ":", "E", ":", "2", "|", "1", ":", "E", ":", "3">>,
      <<"1", ":", "S", ":", "1", "|", "0", ":", "E", ":", "2">>,
      <<"1", ":", "S", ":", "1", "|", "1", ":", "E", ":", "2", "|", "0", ":", "E", ":", "3", "|", "2", ":", "S", ":", "4">>,
      <<"1", ":", "S">>,
      <<"x", ":", "S", ":", "1">>,
      <<"1", ":", "S", ":", "1", "|">>,
      <<"1", ":", "S", ":", "y">>,
      <<"1">>,
      <<"1", ":", "E">> }

\* The lines of a trace: every combination of fields that parse and fields
\* that do not, with and without the fifth.
TraceLines ==
    { Join(<<id, offset, op, fuel>>, ",") :
        id \in { <<"0">>, <<"1">>, <<"x">>, <<"4", "2", "9", "4", "9", "6", "7", "2", "9", "6">> }, offset \in { <<"0">>, <<"4">>, <<>> },
        op \in { START, END, <<"0", "0">>, <<"1", "f">>, <<"1", "F">>, <<"z", "z">>, <<"1", "0", "0">> }, fuel \in { <<"0">>, <<"7">>, <<"-", "1">> } }
    \cup
    { Join(<<id, <<"4">>, <<"1", "f">>, <<"7">>, calls>>, ",") :
        id \in { <<"0">>, <<"1">>, <<"x">> }, calls \in NativeCalls }
    \cup
    { Join(<<<<"1">>, <<"0">>, op, <<"7">>, calls>>, ",") :
        op \in { START, <<"0", "0">> }, calls \in NativeCalls }
    \cup
    { <<>>, <<"1">>, <<"1", ",", "0">>, <<"1", ",", "0", ",", "0", "0">> }

ShortLines ==
    { <<"1", ",", "0", ",", "S", "T", "A", "R", "T", ",", "0", ",">>,
      <<"1", ",", "4", ",", "1", "f", ",", "7", ",">>,
      <<"0", ",", "0", ",", "0", "0", ",", "3", ",">>,
      <<"1", ",", "4", ",", "1", "f", ",", "7", ",", "0", ":", "E", ":", "5">>,
      <<"1", ",", "4", ",", "z", "z", ",", "7", ",">>,
      <<"1", ",", "0", ",", "E", "N", "D", ",", "0", ",">> }

Header == <<"i", "d", ",", "o", "f", "f", ",", "o", "p", ",", "f", "u", "e", "l", ",", "c", "a", "l", "l", "s">>

\* A header and one line, or a header and up to MaxLines of a few lines,
\* or nothing at all.
RawTraces ==
    { Header \o <<"\n">> \o line : line \in TraceLines }
    \cup UNION { { Join(<<Header>> \o ls, "\n") \o <<"\n">> : ls \in [1..n -> ShortLines] } :
                 n \in 0..MaxLines }
    \cup { <<>> }

TracerInit ==
    tracer \in { [raw |-> raw, pos |-> 1, trace |-> <<>>,
                  last |-> [status |-> "None", event |-> NoEvent],
                  status |-> "generate_trace"] : raw \in RawTraces }

TracerIdle ==
    tracer = [raw |-> <<>>, pos |-> 1, trace |-> <<>>,
              last |-> [status |-> "None", event |-> NoEvent], status |-> "idle"]

\* skip(1), then map: the next line parses and its event is collected.
generate_trace_line ==
    /\ tracer.status = "generate_trace"
    /\ tracer.pos < Len(lines(tracer.raw))
    /\ \E r \in { from_str(lines(tracer.raw)[tracer.pos + 1]) } :
          /\ r.status = "Ok"
          /\ tracer' = [tracer EXCEPT !.pos = @ + 1, !.last = r,
                                      !.trace = Append(@, r.event)]
    /\ UNCHANGED not_trace_vars

\* The next line does not parse, and unwrap panics; or parsing it panics.
generate_trace_panic ==
    /\ tracer.status = "generate_trace"
    /\ tracer.pos < Len(lines(tracer.raw))
    /\ \E r \in { from_str(lines(tracer.raw)[tracer.pos + 1]) } :
          /\ r.status # "Ok"
          /\ tracer' = [tracer EXCEPT !.last = r, !.status = "panicked"]
    /\ UNCHANGED not_trace_vars

\* collect(): there are no more lines.
generate_trace_return ==
    /\ tracer.status = "generate_trace"
    /\ tracer.pos >= Len(lines(tracer.raw))
    /\ tracer' = [tracer EXCEPT !.status = "returned"]
    /\ UNCHANGED not_trace_vars

(***************************************************************************)
(* crates/parsetrace/src/utils.rs: matching the recovered functions with   *)
(* the functions of the module.  An Option is <<>> for None and <<v>> for  *)
(* Some(v); a map is a function.                                           *)
(***************************************************************************)
\* Any number of matched pairs is enough.
some_matched(matched_pairs, recovered) == TRUE

\* matched_pairs.len() == recovered.len()
all_matched(matched_pairs, recovered) ==
    Cardinality(DOMAIN matched_pairs) = Len(recovered)

\* match_pair: the recovered pairs (offset, byte) against the operators
\* (offset, opcode) of a function, both in the order of their offsets.
RECURSIVE match_pair_from(_, _, _, _, _)
match_pair_from(recovered, defn, i, j, matched_pairs) ==
    IF i < Len(recovered) /\ j < Len(defn)
    THEN IF recovered[i + 1][1] = defn[j + 1][1]
         THEN IF recovered[i + 1][2] = discriminant(defn[j + 1][2])
              THEN match_pair_from(recovered, defn, i + 1, j + 1,
                                   (recovered[i + 1][1] :> j) @@ matched_pairs)
              ELSE <<>>
         ELSE IF recovered[i + 1][1] <= defn[j + 1][1]
         THEN match_pair_from(recovered, defn, i + 1, j, matched_pairs)
         ELSE match_pair_from(recovered, defn, i, j + 1, matched_pairs)
    ELSE IF all_matched(matched_pairs, recovered)
    THEN <<matched_pairs>>
    ELSE <<>>

match_pair(recovered, defn) == match_pair_from(recovered, defn, 0, 0, <<>>)

\* No function counts as matched before.
never_matched(matched_js_func_idx, i) == FALSE

\* matched_js_func_idx.contains(&(i as u32))
already_matched(matched_js_func_idx, i) == i \in matched_js_func_idx

\* match_single_function, from function i on: the first function that was
\* not matched before and that the recovered pairs match, and the matched
\* functions after.
RECURSIVE match_single_function(_, _, _, _)
match_single_function(recovered_bytes, functions, matched_js_func_idx, i) ==
    IF i >= Len(functions) THEN [found |-> <<>>, matched |-> matched_js_func_idx]
    ELSE IF already_matched(matched_js_func_idx, i)
    THEN match_single_function(recovered_bytes, functions, matched_js_func_idx, i + 1)
    ELSE IF match_pair(recovered_bytes, functions[i + 1]) # <<>>
    THEN [found |-> <<<<i, match_pair(recovered_bytes, functions[i + 1])[1]>>>>,
          matched |-> matched_js_func_idx \cup {i}]
    ELSE match_single_function(recovered_bytes, functions, matched_js_func_idx, i + 1)

\* The opcodes Drop and Return.
MatchBytes == {14, 40}

\* The operators of a function: the opcodes, one byte each, at the offsets
\* from 0.
OperatorsOf(bytes) ==
    [k \in 1..Len(bytes) |-> <<k - 1, Op(k - 1, bytes[k], <<>>, 0, 0)>>]

Operators ==
    { OperatorsOf(<<>>), OperatorsOf(<<14, 40>>), OperatorsOf(<<14, 14>>),
      OperatorsOf(<<14, 14, 40>>) }

RECURSIVE Increasing(_)
Increasing(pairs) ==
    Len(pairs) < 2 \/ (pairs[1][1] < pairs[2][1] /\ Increasing(Tail(pairs)))

\* The offsets of the opcodes that run: the run of an opcode has an offset
\* that is not 0.
RunOffsets == UNION { { f[k][1] : k \in 1..Len(f) } : f \in Operators } \ {0}

\* What recover_bytecodes gives for a function: the pairs (offset, byte)
\* of the opcodes that ran, sorted by offset, no offset twice.
ProfiledOpcodeLists ==
    UNION { { l \in [1..n -> RunOffsets \X MatchBytes] : Increasing(l) } :
            n \in 1..Cardinality(RunOffsets) }

MatcherInit ==
    matcher \in
        { [functions |-> fs, recovered |-> rs, pending |-> DOMAIN rs,
           result |-> <<>>, prev_matched_js_funcs |-> {}, keys |-> <<>>,
           intrinsic_fn_names |-> <<>>, status |-> "match_all_functions"] :
          fs \in UNION { [1..n -> Operators] : n \in 0..MaxFuncs },
          rs \in UNION { [1..n -> ProfiledOpcodeLists] : n \in 0..MaxRecovered } }

MatcherIdle ==
    matcher = [functions |-> <<>>, recovered |-> <<>>, pending |-> {},
               result |-> <<>>, prev_matched_js_funcs |-> {}, keys |-> <<>>,
               intrinsic_fn_names |-> <<>>, status |-> "idle"]

\* One turn of the loop of match_all_functions, for any of the recovered
\* functions that are left (a HashMap has no order): it is matched.  keys
\* is the order in which the map gives its keys.
match_function ==
    /\ matcher.status = "match_all_functions"
    /\ \E recovered_func_id \in matcher.pending :
       \E m \in { match_single_function(matcher.recovered[recovered_func_id],
                                        matcher.functions,
                                        matcher.prev_matched_js_funcs, 0) } :
          /\ m.found # <<>>
          /\ matcher' = [matcher EXCEPT
                            !.pending = @ \ {recovered_func_id},
                            !.keys = Append(@, recovered_func_id),
                            !.prev_matched_js_funcs = m.matched,
                            !.result = (recovered_func_id :> m.found[1]) @@ @]
    /\ UNCHANGED not_match_vars

\* One turn of the loop: no function matches.
match_no_function ==
    /\ matcher.status = "match_all_functions"
    /\ \E recovered_func_id \in matcher.pending :
       \E m \in { match_single_function(matcher.recovered[recovered_func_id],
                                        matcher.functions,
                                        matcher.prev_matched_js_funcs, 0) } :
          /\ m.found = <<>>
          /\ matcher' = [matcher EXCEPT
                            !.pending = @ \ {recovered_func_id},
                            !.keys = Append(@, recovered_func_id),
                            !.prev_matched_js_funcs = m.matched]
    /\ UNCHANGED not_match_vars

match_all_return ==
    /\ matcher.status = "match_all_functions"
    /\ matcher.pending = {}
    /\ matcher' = [matcher EXCEPT !.status = "intrinsic_fn_names"]
    /\ UNCHANGED not_match_vars

\* keys().filter(not matched).enumerate(): the k of intrinsic_fn_k for the
\* keys that are not matched, in the order of the keys of the same map.
enumerate_unmatched(keys, matched_functions) ==
    LET unmatched == SelectSeq(keys, LAMBDA k : k \notin DOMAIN matched_functions)
    IN  [k \in { unmatched[idx] : idx \in 1..Len(unmatched) } |->
            (CHOOSE idx \in 1..Len(unmatched) : unmatched[idx] = k) - 1]

\* ProfileTraceParser::new after match_all_functions.
new_intrinsic_fn_names ==
    /\ matcher.status = "intrinsic_fn_names"
    /\ matcher' = [matcher EXCEPT
                      !.intrinsic_fn_names = enumerate_unmatched(matcher.keys, matcher.result),
                      !.status = "returned"]
    /\ UNCHANGED not_match_vars

(***************************************************************************)
(* crates/parsetrace/src/lib.rs: report_trace and trace, for a module      *)
(* without functions: no recovered function is matched.  One step per      *)
(* event of the trace.                                                     *)
(***************************************************************************)
\* The keys of recover_bytecodes: the functions that ran an opcode.  They
\* are the functions that have a name.
recover_bytecodes_keys(trace) ==
    { trace[k].recovered_func_id :
        k \in { i \in 1..Len(trace) : trace[i].kind = "OpcodeRun" } }

\* The name of the function of a FunctionStart or FunctionEnd: <<>> for
\* None.
js_func_name(trace, recovered_func_id) ==
    IF recovered_func_id \in recover_bytecodes_keys(trace)
    THEN <<recovered_func_id>>
    ELSE <<>>

\* A line of the report: the number of spaces before it and what it says.
Line(indent, text, arg) == [indent |-> indent, text |-> text, arg |-> arg]

\* The line of an event that is neither FunctionStart nor FunctionEnd.
entry_report(event, call_depth) ==
    IF event.kind = "OpcodeRun"
    THEN Line(call_depth * 2, "opcode",
              <<event.opcode_offset, name_from_byte(event.opcode_byte),
                event.fuel_consumption>>)
    ELSE Line(call_depth * 2, "SYSTEM COST", <<event.fuel_consumption>>)

\* The line for FUNCTION END, at the depth after the decrement.
function_end_line(call_depth, name) ==
    Line((call_depth - 1) * 2, "FUNCTION END", <<name>>)

ReportEvents ==
    { FunctionStart(1), FunctionStart(2), FunctionEnd(1), FunctionEnd(2),
      OpcodeRun(1, 4, 31, 7, <<>>), OpcodeRun(2, 6, 40, 1, <<>>),
      SystemSetup(3), FunctionSetup(1, 5) }

ReporterInit ==
    reporter \in
        { [trace |-> t, pos |-> 0, call_depth |-> 0, output |-> <<>>,
           status |-> "report_trace"] :
          t \in UNION { [1..n -> ReportEvents] : n \in 0..MaxEvents } }

ReporterIdle ==
    reporter = [trace |-> <<>>, pos |-> 0, call_depth |-> 0, output |-> <<>>,
                status |-> "idle"]

\* The next event is the run of an opcode or a setup.
report_entry ==
    /\ reporter.status = "report_trace"
    /\ reporter.pos < Len(reporter.trace)
    /\ reporter.trace[reporter.pos + 1].kind \notin {"FunctionStart", "FunctionEnd"}
    /\ reporter' = [reporter EXCEPT
                       !.pos = @ + 1,
                       !.output = Append(@, entry_report(reporter.trace[reporter.pos + 1],
                                                         reporter.call_depth))]
    /\ UNCHANGED not_report_vars

\* The next event is FunctionStart of a function that has a name.
report_function_start ==
    /\ reporter.status = "report_trace"
    /\ reporter.pos < Len(reporter.trace)
    /\ reporter.trace[reporter.pos + 1].kind = "FunctionStart"
    /\ \E name \in { js_func_name(reporter.trace,
                                  reporter.trace[reporter.pos + 1].recovered_func_id) } :
          /\ name # <<>>
          /\ reporter' = [reporter EXCEPT
                             !.pos = @ + 1,
                             !.call_depth = @ + 1,
                             !.output = Append(@, Line(reporter.call_depth * 2,
                                                       "FUNCTION START", name))]
    /\ UNCHANGED not_report_vars

\* The next event is FunctionEnd of a function that has a name, at a depth
\* that is not 0.
report_function_end ==
    /\ reporter.status = "report_trace"
    /\ reporter.pos < Len(reporter.trace)
    /\ reporter.trace[reporter.pos + 1].kind = "FunctionEnd"
    /\ reporter.call_depth > 0
    /\ \E name \in { js_func_name(reporter.trace,
                                  reporter.trace[reporter.pos + 1].recovered_func_id) } :
          /\ name # <<>>
          /\ reporter' = [reporter EXCEPT
                             !.pos = @ + 1,
                             !.call_depth = @ - 1,
                             !.output = Append(@, function_end_line(reporter.call_depth,
                                                                    name[1]))]
    /\ UNCHANGED not_report_vars

\* FunctionEnd at depth 0: call_depth -= 1 on a usize.  With overflow
\* checks the subtraction panics; without them the depth wraps around and
\* the line is padded to 2^64 - 2 spaces, which no allocation can hold.
report_function_end_underflow ==
    /\ reporter.status = "report_trace"
    /\ reporter.pos < Len(reporter.trace)
    /\ reporter.trace[reporter.pos + 1].kind = "FunctionEnd"
    /\ reporter.call_depth = 0
    /\ js_func_name(reporter.trace,
                    reporter.trace[reporter.pos + 1].recovered_func_id) # <<>>
    /\ \E outcome \in {"panicked", "aborted"} :
          reporter' = [reporter EXCEPT !.status = outcome]
    /\ UNCHANGED not_report_vars

\* The function of a FunctionStart or FunctionEnd has no name: `?` makes
\* report_trace return None, and trace returns unwrap_or_default(), the
\* empty report.
report_none ==
    /\ reporter.status = "report_trace"
    /\ reporter.pos < Len(reporter.trace)
    /\ reporter.trace[reporter.pos + 1].kind \in {"FunctionStart", "FunctionEnd"}
    /\ js_func_name(reporter.trace,
                    reporter.trace[reporter.pos + 1].recovered_func_id) = <<>>
    /\ reporter' = [reporter EXCEPT !.output = <<>>, !.status = "returned"]
    /\ UNCHANGED not_report_vars

\* Some(output)
report_return ==
    /\ reporter.status = "report_trace"
    /\ reporter.pos >= Len(reporter.trace)
    /\ reporter' = [reporter EXCEPT !.status = "returned"]
    /\ UNCHANGED not_report_vars

(***************************************************************************)
(* crates/quickpars/src/readers.rs: a reader and the sub-readers carved    *)
(* from it, under any sequence of read, skip and slice.  `rds` holds the   *)
(* readers alive, the root first; `last` the operation just done: its      *)
(* target, its size, its outcome, the bytes it returned and the target as  *)
(* it was before.                                                          *)
(***************************************************************************)
MaxBytes == 2

MaxReaders == 2

RootBuffers == { [k \in 1..n |-> k] : n \in 0..MaxBytes }

\* The sizes that fit the model's integers, and usize::MAX - k written as
\* the two's complement -(k + 1).
Sizes == 0..(MaxBytes + 1)

HugeSizes == { -(k + 1) : k \in 0..MaxBytes }

Operation(op, target, size, err, bytes, before) ==
    [op |-> op, target |-> target, size |-> size, err |-> err, bytes |-> bytes,
     before |-> before]

NoOperation == Operation("none", 0, 0, "none", <<>>, BinaryReader_empty)

ReadersInit ==
    /\ readers \in { [rds |-> <<BinaryReader_new(b)>>, last |-> NoOperation,
                      checks |-> c, status |-> "run"] :
                     b \in RootBuffers, c \in BOOLEAN }

ReadersIdle ==
    readers = [rds |-> <<>>, last |-> NoOperation, checks |-> FALSE, status |-> "idle"]

\* reader.read(n) on one of the readers, successful or failed.
reader_read ==
    /\ readers.status = "run"
    /\ \E i \in 1..Len(readers.rds), n \in Sizes :
          \E r \in {read(readers.rds[i], n)} :
             readers' = [readers EXCEPT
                 !.rds[i] = r.rd,
                 !.last = Operation("read", i, n, r.err,
                                    IF r.err = "none" THEN r.val ELSE <<>>,
                                    readers.rds[i])]
    /\ UNCHANGED not_reader_vars

\* reader.skip(n) on one of the readers, successful or failed.
reader_skip ==
    /\ readers.status = "run"
    /\ \E i \in 1..Len(readers.rds), n \in Sizes :
          \E r \in {skip(readers.rds[i], n)} :
             readers' = [readers EXCEPT
                 !.rds[i] = r.rd,
                 !.last = Operation("skip", i, n, r.err, <<>>, readers.rds[i])]
    /\ UNCHANGED not_reader_vars

\* slice(reader, n) returns the sub-reader.
reader_slice ==
    /\ readers.status = "run"
    /\ Len(readers.rds) < MaxReaders
    /\ \E i \in 1..Len(readers.rds), n \in Sizes :
          \E r \in {slice(readers.rds[i], n)} :
             /\ r.err = "none"
             /\ readers' = [readers EXCEPT
                    !.rds = Append([readers.rds EXCEPT ![i] = r.rd], r.val),
                    !.last = Operation("slice", i, n, r.err, <<>>, readers.rds[i])]
    /\ UNCHANGED not_reader_vars

\* slice(reader, n) with n beyond the window aborts on its index.
reader_slice_panic ==
    /\ readers.status = "run"
    /\ \E i \in 1..Len(readers.rds), n \in Sizes :
          \E r \in {slice(readers.rds[i], n)} :
             /\ r.err = "panic"
             /\ readers' = [readers EXCEPT
                    !.last = Operation("slice", i, n, r.err, <<>>, readers.rds[i]),
                    !.status = "panicked"]
    /\ UNCHANGED not_reader_vars

\* An operation whose size is usize::MAX - k.  `self.offset + size` (ensure,
\* slice) overflows when offset > k: the build with overflow checks aborts,
\* the other wraps to offset - (k + 1), which ensure accepts; skip then sets
\* the offset to it, read and slice index data[offset..offset - (k + 1)]
\* and abort.  Without overflow the sum is beyond every window: read and
\* skip fail in ensure, slice aborts on its index.
reader_huge ==
    /\ readers.status = "run"
    /\ \E i \in 1..Len(readers.rds), n \in HugeSizes, op \in {"read", "skip", "slice"} :
          LET rd == readers.rds[i]
              overflows == rd.offset + n >= 0
              aborts == IF overflows THEN readers.checks \/ op # "skip"
                        ELSE op = "slice"
              err == IF aborts THEN "panic"
                     ELSE IF overflows THEN "none" ELSE "Truncated"
          IN readers' = [readers EXCEPT
                 !.rds[i] = IF err = "none"
                            THEN [rd EXCEPT !.offset = rd.offset + n]
                            ELSE rd,
                 !.last = Operation(op, i, n, err, <<>>, rd),
                 !.status = IF aborts THEN "panicked" ELSE "run"]
    /\ UNCHANGED not_reader_vars

(***************************************************************************)
(* The specification of the decoder and the translation.                   *)
(***************************************************************************)
OperatorIdle ==
    /\ op_reader = BinaryReader_empty
    /\ overflow_checks = FALSE
    /\ ops = <<>>
    /\ op_pc = "idle"

DecoderIdle ==
    /\ data = <<>>
    /\ parser = Parser_new
    /\ stream = <<>>
    /\ translation = DefaultTranslation
    /\ builder = TranslationBuilder_new
    /\ pc = "idle"
    /\ ret = NoReturn

\* Every component but one is idle.
IdleBut(component) ==
    /\ component = "decoder" \/ DecoderIdle
    /\ component = "operator" \/ OperatorIdle
    /\ component = "resolver" \/ ResolverIdle
    /\ component = "compiler" \/ BuilderIdle
    /\ component = "trace" \/ TracerIdle
    /\ component = "match" \/ MatcherIdle
    /\ component = "report" \/ ReporterIdle
    /\ component = "reader" \/ ReadersIdle

Init == DecoderInit /\ IdleBut("decoder")

Next ==
    \/ translate_payload
    \/ translate_error
    \/ translate_panic
    \/ translate_return

Spec == Init /\ [][Next]_vars

\* The consumer of the iterator keeps asking for the next item: translate's
\* `for payload in parse_buffer(buffer)` loop runs until it returns or
\* aborts.  One of the four steps is possible exactly while pc = "translate"
\* (an item, a failure or an abort while the parser is not done, the return
\* once it is), so ENABLED <<Next>>_vars is pc = "translate" and weak
\* fairness of Next, []<>~ENABLED <<Next>>_vars \/ []<><<Next>>_vars, reads:
Fairness ==
    /\ WF_vars(translate_return)
    /\ ([]<>(pc # "translate") \/ []<><<Next>>_vars)

FairSpec == Spec /\ Fairness

(***************************************************************************)
(* A TranslationBuilder that is used again: translate takes &mut self, so  *)
(* after a call has returned the caller may call it with another buffer.   *)
(* The call starts with a new parser and a new local translation; the      *)
(* builder is the one the earlier calls left.  No further call is made     *)
(* once the builder holds more than MaxFuncs functions.                    *)
(***************************************************************************)
AgainBuffers ==
    { EncodeBuffer(VERSION, 0, <<>>, fs) : fs \in FuncLists }
    \cup { <<VERSION, 1, 2>>, <<VERSION, 128>> }

translate_again ==
    /\ pc = "returned"
    /\ Len(builder.translation.module.functions) <= MaxFuncs
    /\ data' \in AgainBuffers
    /\ parser' = Parser_new
    /\ stream' = <<>>
    /\ translation' = DefaultTranslation
    /\ ret' = NoReturn
    /\ pc' = "translate"
    /\ UNCHANGED <<builder, not_decoder_vars>>

InitAgain == Init /\ data \in AgainBuffers

NextAgain ==
    \/ translate_payload
    \/ translate_error
    \/ translate_panic
    \/ translate_return
    \/ translate_again

SpecAgain == InitAgain /\ [][NextAgain]_vars

(***************************************************************************)
(* The specification of the operator decoder.                              *)
(***************************************************************************)
InitOp == OperatorInit /\ IdleBut("operator")

NextOp ==
    \/ walk_operator
    \/ walk_error
    \/ walk_panic
    \/ walk_done
    \/ collect_operator
    \/ collect_skip
    \/ collect_panic
    \/ collect_done
    \/ report_operators

SpecOp == InitOp /\ [][NextOp]_vars

(***************************************************************************)
(* The specification of the resolvers.                                     *)
(***************************************************************************)
InitRes == ResolverInit /\ IdleBut("resolver")

NextRes ==
    \/ resolve_returns
    \/ resolve_panics

SpecRes == InitRes /\ [][NextRes]_vars

(***************************************************************************)
(* The specification of the function builder.                              *)
(***************************************************************************)
InitBuild == BuilderInit /\ IdleBut("compiler")

NextBuild ==
    \/ handle_function_header
    \/ handle_entry
    \/ handle_operator
    \/ validate_blocks

SpecBuild == InitBuild /\ [][NextBuild]_vars

(***************************************************************************)
(* The specification of the parser of traces.                              *)
(***************************************************************************)
InitTrace == TracerInit /\ IdleBut("trace")

NextTrace ==
    \/ generate_trace_line
    \/ generate_trace_panic
    \/ generate_trace_return

SpecTrace == InitTrace /\ [][NextTrace]_vars

(***************************************************************************)
(* The specification of the matching.                                      *)
(***************************************************************************)
InitMatch == MatcherInit /\ IdleBut("match")

NextMatch ==
    \/ match_function
    \/ match_no_function
    \/ match_all_return
    \/ new_intrinsic_fn_names

SpecMatch == InitMatch /\ [][NextMatch]_vars

(***************************************************************************)
(* The specification of the report.                                        *)
(***************************************************************************)
InitReport == ReporterInit /\ IdleBut("report")

NextReport ==
    \/ report_entry
    \/ report_function_start
    \/ report_function_end
    \/ report_function_end_underflow
    \/ report_none
    \/ report_return

SpecReport == InitReport /\ [][NextReport]_vars

(***************************************************************************)
(* The specification of the readers.                                       *)
(***************************************************************************)
InitRead == ReadersInit /\ IdleBut("reader")

NextRead ==
    \/ reader_read
    \/ reader_skip
    \/ reader_slice
    \/ reader_slice_panic
    \/ reader_huge

SpecRead == InitRead /\ [][NextRead]_vars

(***************************************************************************)
(* Properties of the decoder and the translation.                          *)
(***************************************************************************)
KindAt(i) == IF i >= 1 /\ i <= Len(stream) THEN stream[i].kind ELSE "none"

Count(kind) == Cardinality({ i \in 1..Len(stream) : stream[i].kind = kind })

LastItem == stream[Len(stream)]

\* The function records a translate call has made, returned or kept.
Records == ret.translation.module.functions \o builder.translation.module.functions

\* C1: for a well-formed buffer the payload stream of a finished decoder has
\* exactly one Header, at most one ModuleHeader, and every FunctionHeader is
\* followed at once by FunctionLocals, FunctionClosureVars and
\* FunctionOperators, a FunctionDebugInfo coming only right after
\* FunctionOperators.
C1_PayloadOrder ==
    (data \in ValidBuffers /\ pc = "returned") =>
        /\ Count("Header") = 1
        /\ Count("ModuleHeader") <= 1
        /\ \A i \in 1..Len(stream) :
              /\ KindAt(i) = "FunctionHeader" =>
                    /\ KindAt(i + 1) = "FunctionLocals"
                    /\ KindAt(i + 2) = "FunctionClosureVars"
                    /\ KindAt(i + 3) = "FunctionOperators"
              /\ KindAt(i) = "FunctionLocals" => KindAt(i - 1) = "FunctionHeader"
              /\ KindAt(i) = "FunctionClosureVars" => KindAt(i - 1) = "FunctionLocals"
              /\ KindAt(i) = "FunctionOperators" => KindAt(i - 1) = "FunctionClosureVars"
              /\ KindAt(i) = "FunctionDebugInfo" => KindAt(i - 1) = "FunctionOperators"

\* C2: when the decoder has consumed the buffer without error the stream
\* ends with End, emitted once; the empty-module buffer yields Version,
\* Header, ModuleHeader, End.
C2_EndTerminates ==
    (pc = "returned" /\ ret.status = "Ok") =>
        /\ Len(stream) > 0
        /\ LastItem.kind = "End"
        /\ Count("End") = 1
        /\ data = <<VERSION, 0>> \o EmptyModule =>
              [i \in 1..Len(stream) |-> stream[i].kind]
                  = <<"Version", "Header", "ModuleHeader", "End">>

\* C3: the Translation that translate returns holds one function record per
\* FunctionHeader payload, in stream order, record i with index i and with
\* the header of the i-th FunctionHeader.
C3_ReturnedFunctions ==
    (pc = "returned" /\ ret.status = "Ok") =>
        LET fs == ret.translation.module.functions
            hs == SelectSeq(stream, LAMBDA it : it.kind = "FunctionHeader")
        IN /\ Len(fs) = Len(hs)
           /\ \A i \in 1..Len(fs) :
                 /\ fs[i].index = i - 1
                 /\ fs[i].header = hs[i].body

\* C4: after a translate call that succeeds, every function record has as
\* many locals as its header's local_count, as many closure variables as
\* its closure_var_count, and an operator reader of bytecode_len bytes.
C4_RecordLengths ==
    (pc = "returned" /\ ret.status = "Ok") =>
        \A i \in 1..Len(Records) :
            /\ Len(Records[i].locals) = Records[i].header.local_count
            /\ Len(Records[i].closure_vars) = Records[i].header.closure_var_count
            /\ Len(Records[i].operators.data) = Records[i].header.bytecode_len

\* The decoding has failed: the iterator has yielded a failure, or the
\* decoder ran off the buffer.
DecodeFailed == pc = "panicked" \/ Count("Err") > 0

\* C5: after any decode failure the decoder is terminal, and the failure is
\* the last item the iterator yielded, annotated with an offset inside the
\* buffer at or after the start of the failed payload.
C5_FailureIsTerminal ==
    DecodeFailed =>
        /\ parser.done
        /\ Len(stream) > 0
        /\ LastItem.kind = "Err"
        /\ Count("Err") = 1
        /\ LastItem.at <= LastItem.body.offset
        /\ LastItem.body.offset <= Len(data)

\* C6: a first byte that differs from VERSION makes the decoder fail with
\* VersionMismatch before any payload, and translate returns that error
\* annotated with offset 0.
C6_VersionMismatchAtZero ==
    (Len(data) >= 1 /\ data[1] # VERSION /\ pc # "translate") =>
        /\ pc = "returned"
        /\ Len(stream) = 1
        /\ stream[1].kind = "Err"
        /\ ret.status = "Err"
        /\ ret.error.kind = "VersionMismatch"
        /\ ret.error.offset = 0

\* C7: a bytecode length, an atom string length or a debug buffer length
\* beyond the bytes that remain is reported as a Truncated failure value:
\* carving the slice never aborts the decoder.
C7_CarveReturnsTruncated == pc # "panicked"

\* C8: after translate returns an error, nothing decoded before the failure
\* is observable in the builder or in the returned value.
C8_NoPartialTranslation ==
    (pc = "returned" /\ ret.status = "Err") =>
        /\ builder.translation = DefaultTranslation
        /\ ret.translation = DefaultTranslation

\* An item whose parse began in the state Tags with a tag byte to read.
ParsedAsTag(i) ==
    /\ stream[i].at < Len(data)
    /\ \/ stream[i].kind \in {"ModuleHeader", "FunctionHeader"}
       \/ stream[i].kind = "Err" /\ stream[i].body.state \in {"Tags", "End"}

TagByte(i) == data[stream[i].at + 1]

\* C9 as claimed: tag byte 12 selects a module section, tag byte 13 a
\* function section, any other byte fails with UnsupportedTag and stops.
C9_TagValuesClaimed ==
    \A i \in 1..Len(stream) :
        ParsedAsTag(i) =>
            /\ stream[i].kind = "ModuleHeader" => TagByte(i) = 12
            /\ stream[i].kind = "FunctionHeader" => TagByte(i) = 13
            /\ TagByte(i) \notin {12, 13} =>
                  /\ stream[i].kind = "Err"
                  /\ stream[i].body.kind = "UnsupportedTag"
                  /\ i = Len(stream)
                  /\ parser.done

\* C9 amended: tag byte 13 selects a module section, tag byte 12 a function
\* section, any other byte fails with UnsupportedTag and stops the decoder.
C9_TagValues ==
    \A i \in 1..Len(stream) :
        ParsedAsTag(i) =>
            /\ stream[i].kind = "ModuleHeader" => TagByte(i) = 13
            /\ stream[i].kind = "FunctionHeader" => TagByte(i) = 12
            /\ TagByte(i) = 13 =>
                  \/ stream[i].kind = "ModuleHeader"
                  \/ stream[i].kind = "Err" /\ stream[i].body.kind # "UnsupportedTag"
            /\ TagByte(i) = 12 =>
                  \/ stream[i].kind = "FunctionHeader"
                  \/ stream[i].kind = "Err" /\ stream[i].body.kind # "UnsupportedTag"
            /\ TagByte(i) \notin {12, 13} =>
                  /\ stream[i].kind = "Err"
                  /\ stream[i].body.kind = "UnsupportedTag"
                  /\ i = Len(stream)
                  /\ parser.done

\* A module section and a function section were decoded and a third tag
\* byte was refused.
C9_Witness ==
    /\ Count("ModuleHeader") = 1
    /\ Count("FunctionHeader") >= 1
    /\ Len(stream) > 0
    /\ LastItem.kind = "Err"
    /\ LastItem.body.kind = "UnsupportedTag"
    /\ parser.done

(***************************************************************************)
(* Properties of the operator decoder.                                     *)
(***************************************************************************)
PcAfterImmediate(op) == op.pc + 1 + Len(op.imms[1])

\* The displacement a branch instruction carries: its immediate as a signed
\* little-endian integer.
Displacement(op) ==
    CASE Len(op.imms[1]) = 1 -> AsI8(op.imms[1])
      [] Len(op.imms[1]) = 2 -> AsI16(op.imms[1])
      [] Len(op.imms[1]) = 4 -> AsI32(op.imms[1])

\* C10: the offset field of every decoded branch variant is the absolute
\* target, the reader position after the immediate plus the displacement;
\* the bytes 236, 5 at offset 0 decode to IfFalse8 with offset 7.
C10_AbsoluteBranchTarget ==
    \A i \in 1..Len(ops) :
        ops[i].byte \in BranchBytes =>
            ops[i].offset = PcAfterImmediate(ops[i]) + Displacement(ops[i])

\* The opcode byte the reader is at, and whether the bytes after it are
\* enough for the immediates of that opcode.
NextByte == op_reader.data[op_reader.offset + 1]

RECURSIVE Sum(_)
Sum(ws) == IF ws = <<>> THEN 0 ELSE Head(ws) + Sum(Tail(ws))

EnoughImmediates ==
    op_reader.offset + 1 + Sum(OpWidths(NextByte)) <= Len(op_reader.data)

\* C11: for every byte b in 0..=247 followed by enough immediate bytes,
\* from_reader yields a variant whose discriminant() is b and whose name is
\* name_from_byte(b); for every byte in 248..=255 it fails with
\* UnsupportedOpcode.
C11_ByteVariantSymmetry ==
    (op_pc = "walk" /\ ~done(op_reader)) =>
        LET r == from_reader(op_reader, overflow_checks)
        IN IF NextByte >= 248
           THEN r.err = "UnsupportedOpcode"
           ELSE EnoughImmediates =>
                    /\ r.err = "none"
                    /\ discriminant(r.val) = NextByte
                    /\ name_from_byte(NextByte) = r.val.name

(***************************************************************************)
(* Properties of the resolvers.                                            *)
(***************************************************************************)
\* The function index a call of resolve_func_name is said to name.
Target(c) == IF c.second = <<>> THEN c.index ELSE c.index + 1 + c.second[1]

\* Whether function k of t exists and its name atom is in the atom table,
\* and then its name.
Named(t, k) ==
    /\ k < Len(t.module.functions)
    /\ t.module.functions[k + 1].header.name_index < t.header.atoms.len

NameOf(t, k) ==
    LET ni == t.module.functions[k + 1].header.name_index
    IN IF ni < ATOM_NAMES_LEN THEN ATOM_NAMES(ni)
       ELSE <<"custom", t.header.atoms.custom[ni - ATOM_NAMES_LEN + 1]>>

OutOfRange(t, c) ==
    IF c.fn = "resolve_atom_name" THEN c.index >= t.header.atoms.len
    ELSE IF c.fn = "resolve_func_name" THEN Target(c) >= Len(t.module.functions)
    ELSE c.index >= Len(t.module.functions)

\* C13: a resolver called with an out-of-range index returns a failure
\* value: UnknownAtom for an atom index outside the atom table,
\* UnknownFunction for a function index outside the function list.
C13_OutOfRangeIsFailure ==
    (resolver.status # "call" /\ OutOfRange(resolver.translation, resolver.call))
    => /\ resolver.status = "returned"
       /\ resolver.result.err = IF resolver.call.fn = "resolve_atom_name"
                                THEN "UnknownAtom" ELSE "UnknownFunction"

\* C14: a function whose name atom is the zero atom is resolved to the name
\* lambda_fn_<index>, its function index.
C14_LambdaName ==
    (/\ resolver.status = "returned"
     /\ resolver.call.fn = "resolve_func_name"
     /\ resolver.translation.module.functions[Target(resolver.call) + 1]
            .header.name_index = 0)
    => resolver.result.val = <<"lambda_fn", Target(resolver.call)>>

(***************************************************************************)
(* Properties of the function builder.                                     *)
(***************************************************************************)
\* C15: build() on any translated function returns successfully: no call
\* it makes fails, and the body it returns has exactly one 64-bit return
\* value and every block sealed.
C15_BuildSucceeds ==
    /\ fb.status # "failed"
    /\ fb.status = "returned" =>
          /\ fb.result.rets = <<"I64">>
          /\ \A block \in 0..(Len(fb.result.blocks) - 1) : block \in fb.sealed

\* The value a local has in the current block.
LocalValue(b, local) ==
    CHOOSE v \in 0..b.result.values : <<local, v>> \in
        { b.block[1].local_to_value[k] : k \in 1..Len(b.block[1].local_to_value) }

\* C16: before any operator is translated the body has local_count 64-bit
\* locals, the entry block has defined_arg_count 64-bit parameters and
\* local i is the value of the i-th of them, the out block is another block
\* with one 64-bit parameter, and the only control frame is a Block frame
\* for the out block.
C16_InitialBuilderShape ==
    fb.status = "handle_operator" =>
      /\ fb.result.locals = [i \in 1..fb.header.local_count |-> "I64"]
      /\ fb.result.entry \in 0..(Len(fb.result.blocks) - 1)
      /\ Len(fb.result.blocks[fb.result.entry + 1]) = fb.header.defined_arg_count
      /\ fb.block # <<>> /\ fb.block[1].block = fb.result.entry
      /\ \A i \in 0..(fb.header.defined_arg_count - 1) :
            /\ fb.result.blocks[fb.result.entry + 1][i + 1][1] = "I64"
            /\ i \in Keys(fb.block[1].local_to_value)
            /\ LocalValue(fb, i) = fb.result.blocks[fb.result.entry + 1][i + 1][2]
      /\ Len(fb.control) = 1
      /\ fb.control[1].kind = "Block"
      /\ fb.control[1].block \in 0..(Len(fb.result.blocks) - 1)
      /\ fb.control[1].block # fb.result.entry
      /\ Len(fb.result.blocks[fb.control[1].block + 1]) = 1
      /\ fb.result.blocks[fb.control[1].block + 1][1][1] = "I64"

\* C16: a function with three locals, two of them defined arguments, is
\* about to have its operators translated.
C16_Witness ==
    /\ fb.status = "handle_operator"
    /\ fb.header.local_count = 3
    /\ fb.header.defined_arg_count = 2

(***************************************************************************)
(* Properties of the parser of traces.                                     *)
(***************************************************************************)
\* The fields of the line of the k-th event after the header.
FieldsOf(k) == split(lines(tracer.raw)[k + 1], ",")

\* The four fields are there, the numbers are numbers, and the third is
\* START, END or the two hexadecimal digits of a byte.
ValidFields(p) ==
    /\ Len(p) >= 4
    /\ parse_u32(p[1]).ok /\ parse_u32(p[2]).ok /\ parse_u32(p[4]).ok
    /\ p[3] \in {START, END} \/ from_str_radix(p[3], 16, U8_MAX).ok

FifthField(p) == IF Len(p) >= 5 THEN p[5] ELSE <<>>

\* The event a line of valid fields stands for.
Classified(p, e) ==
    IF p[3] = START THEN e = FunctionStart(parse_u32(p[1]).val)
    ELSE IF p[3] = END THEN e = FunctionEnd(parse_u32(p[1]).val)
    ELSE IF parse_u32(p[2]).val = 0 /\ parse_u32(p[1]).val = 0
    THEN e = SystemSetup(parse_u32(p[4]).val)
    ELSE IF parse_u32(p[2]).val = 0
    THEN e = FunctionSetup(parse_u32(p[1]).val, parse_u32(p[4]).val)
    ELSE e = OpcodeRun(parse_u32(p[1]).val, parse_u32(p[2]).val,
                       from_str_radix(p[3], 16, U8_MAX).val, parse_u32(p[4]).val,
                       native_calls_from_str(FifthField(p)).calls)

\* C17: a line is START, END, the setup of the system or of a function, or
\* the run of an opcode according to its third field, its offset and its
\* function id, and a line of valid fields without native calls is one of
\* them.
C17_Classification ==
    /\ \A k \in 1..Len(tracer.trace) :
          ValidFields(FieldsOf(k)) /\ Classified(FieldsOf(k), tracer.trace[k])
    /\ tracer.status = "panicked" =>
          ~ /\ ValidFields(FieldsOf(tracer.pos))
            /\ \/ FieldsOf(tracer.pos)[3] \in {START, END}
               \/ parse_u32(FieldsOf(tracer.pos)[2]).val = 0
               \/ FifthField(FieldsOf(tracer.pos)) = <<>>

\* C17: the run of an opcode with native calls has been read.
C17_Witness ==
    \E k \in 1..Len(tracer.trace) :
        /\ tracer.trace[k].kind = "OpcodeRun"
        /\ tracer.trace[k].native_calls # <<>>

\* The events of the native calls of a line are id:S:fuel or id:E:fuel.
WellFormedCalls(tokens) ==
    \A i \in 1..Len(tokens) :
        /\ Len(split(tokens[i], ":")) = 3
        /\ parse_u32(split(tokens[i], ":")[1]).ok
        /\ split(tokens[i], ":")[2] \in {<<"S">>, <<"E">>}
        /\ parse_u32(split(tokens[i], ":")[3]).ok

\* There is an E that does not end the function that was started last and
\* not ended yet.
RECURSIVE UnmatchedEnd(_, _, _)
UnmatchedEnd(tokens, i, started) ==
    IF i > Len(tokens) THEN FALSE
    ELSE IF split(tokens[i], ":")[2] = <<"S">>
    THEN UnmatchedEnd(tokens, i + 1, Append(started, split(tokens[i], ":")[1]))
    ELSE IF started # <<>> /\ started[Len(started)] = split(tokens[i], ":")[1]
    THEN UnmatchedEnd(tokens, i + 1, SubSeq(started, 1, Len(started) - 1))
    ELSE TRUE

\* The line is the run of an opcode whose native calls hold an E without
\* its S.
HasUnmatchedEnd(p) ==
    /\ ValidFields(p)
    /\ p[3] \notin {START, END}
    /\ parse_u32(p[2]).val # 0
    /\ FifthField(p) # <<>>
    /\ WellFormedCalls(split(FifthField(p), "|"))
    /\ UnmatchedEnd(split(FifthField(p), "|"), 1, <<>>)

RECURSIVE FrameCount(_)
FrameCount(calls) ==
    IF calls = <<>> THEN 0
    ELSE 1 + FrameCount(Head(calls).calls) + FrameCount(Tail(calls))

StartCount(tokens) ==
    Cardinality({ i \in 1..Len(tokens) : split(tokens[i], ":")[2] = <<"S">> })

\* C18: every S of the native calls of a line is a frame of its own, and
\* a line whose native calls hold an E without its S, at the top or below
\* it and whatever the function id, is rejected with an error.
C18_UnmatchedEndRejected ==
    /\ \A k \in 1..Len(tracer.trace) :
          /\ ~HasUnmatchedEnd(FieldsOf(k))
          /\ tracer.trace[k].kind = "OpcodeRun" /\ FifthField(FieldsOf(k)) # <<>> =>
                FrameCount(tracer.trace[k].native_calls) =
                    StartCount(split(FifthField(FieldsOf(k)), "|"))
    /\ tracer.status = "panicked" /\ HasUnmatchedEnd(FieldsOf(tracer.pos)) =>
          tracer.last.status = "Err"

\* C19: a line that cannot be parsed makes generate_trace fail with an
\* error value; it does not panic.
C19_MalformedIsError ==
    tracer.last.status \in {"Err", "Panic"} => tracer.status # "panicked"

(***************************************************************************)
(* Properties of the matching.                                             *)
(***************************************************************************)
\* C20: no two recovered functions are matched with the same function of
\* the module.
C20_OneToOne ==
    \A a \in DOMAIN matcher.result : \A b \in DOMAIN matcher.result :
        a # b => matcher.result[a][1] # matcher.result[b][1]

\* C20: two recovered functions that both match the first function of the
\* module have been matched.
C20_Witness ==
    /\ matcher.status = "returned"
    /\ DOMAIN matcher.result = {1, 2}
    /\ match_pair(matcher.recovered[1], matcher.functions[1]) # <<>>
    /\ match_pair(matcher.recovered[2], matcher.functions[1]) # <<>>

\* The recovered functions are numbered in the order in which they first
\* appear in the trace; these are the ones before id that are not matched.
UnmatchedBefore(id) ==
    { j \in DOMAIN matcher.recovered : j < id /\ j \notin DOMAIN matcher.result }

\* C21: every recovered function that is not matched is named
\* intrinsic_fn_k, no two have the same k, and k is the number of
\* unmatched functions that appear before it in the trace.
C21_IntrinsicNames ==
    matcher.status = "returned" =>
      /\ DOMAIN matcher.intrinsic_fn_names =
            DOMAIN matcher.recovered \ DOMAIN matcher.result
      /\ \A a \in DOMAIN matcher.intrinsic_fn_names :
         \A b \in DOMAIN matcher.intrinsic_fn_names :
            a # b => matcher.intrinsic_fn_names[a] # matcher.intrinsic_fn_names[b]
      /\ \A a \in DOMAIN matcher.intrinsic_fn_names :
            matcher.intrinsic_fn_names[a] = Cardinality(UnmatchedBefore(a))

\* Every recovered pair has an operator of the function at its offset,
\* with its byte.
EveryPairDecoded(recovered, defn) ==
    \A i \in 1..Len(recovered) : \E j \in 1..Len(defn) :
        defn[j][1] = recovered[i][1] /\ discriminant(defn[j][2]) = recovered[i][2]

\* The map sends the offset of every recovered pair to the index of the
\* operator at that offset.
MapsToOperators(pairs, recovered, defn) ==
    /\ DOMAIN pairs = { recovered[i][1] : i \in 1..Len(recovered) }
    /\ \A o \in DOMAIN pairs :
          pairs[o] \in 0..(Len(defn) - 1) /\ defn[pairs[o] + 1][1] = o

\* The example: operators (0, 0x28), (2, 0xB6), (5, 0x29) and the recovered
\* pairs (2, 0xB6), (5, 0x29).
ExampleOperators ==
    << <<0, Op(0, 40, <<>>, 0, 0)>>, <<2, Op(2, 182, <<0, 0>>, 0, 0)>>,
       <<5, Op(5, 41, <<>>, 0, 0)>> >>

ExampleRecovered == << <<2, 182>>, <<5, 41>> >>

\* C22: match_pair accepts a function for recovered pairs exactly when
\* every pair has an operator of the function at its offset with its byte,
\* and the map it returns then sends every recovered offset to the index of
\* that operator; the map of a matched function is such a map.
C22_MatchPair ==
    /\ \A id \in DOMAIN matcher.recovered : \A f \in 1..Len(matcher.functions) :
          /\ match_pair(matcher.recovered[id], matcher.functions[f]) # <<>>
                <=> EveryPairDecoded(matcher.recovered[id], matcher.functions[f])
          /\ match_pair(matcher.recovered[id], matcher.functions[f]) # <<>> =>
                MapsToOperators(match_pair(matcher.recovered[id], matcher.functions[f])[1],
                                matcher.recovered[id], matcher.functions[f])
    /\ \A id \in DOMAIN matcher.result :
          /\ EveryPairDecoded(matcher.recovered[id],
                              matcher.functions[matcher.result[id][1] + 1])
          /\ MapsToOperators(matcher.result[id][2], matcher.recovered[id],
                             matcher.functions[matcher.result[id][1] + 1])
    /\ match_pair(ExampleRecovered, ExampleOperators) = << (2 :> 1) @@ (5 :> 2) >>

\* C22: a recovered function of two pairs has been matched with a function
\* that has an operator before them, and another one was refused.
C22_Witness ==
    /\ \E id \in DOMAIN matcher.result :
          /\ Len(matcher.recovered[id]) = 2
          /\ Len(matcher.functions[matcher.result[id][1] + 1]) = 3
    /\ \E id \in DOMAIN matcher.recovered : \E f \in 1..Len(matcher.functions) :
          matcher.functions[f] # <<>> /\
          match_pair(matcher.recovered[id], matcher.functions[f]) = <<>>

\* What match_all_functions gives when it takes the recovered functions in
\* the order of ids.
RECURSIVE MatchInOrder(_, _, _)
MatchInOrder(ids, matched, result) ==
    LET next(id, m) ==
            MatchInOrder(Tail(ids), m.matched,
                         IF m.found = <<>> THEN result ELSE (id :> m.found[1]) @@ result)
    IN  IF ids = <<>> THEN result
        ELSE next(Head(ids), match_single_function(matcher.recovered[Head(ids)],
                                                   matcher.functions, matched, 0))

Ascending == [k \in 1..Len(matcher.recovered) |-> k]

\* C29: the matched functions and the names of the others do not depend on
\* the order in which the recovered functions are taken: they are the ones
\* of the ascending order.
C29_OrderIndependent ==
    matcher.status = "returned" =>
      /\ matcher.result = MatchInOrder(Ascending, {}, <<>>)
      /\ matcher.intrinsic_fn_names =
            enumerate_unmatched(Ascending, MatchInOrder(Ascending, {}, <<>>))

(***************************************************************************)
(* Properties of the report.                                               *)
(***************************************************************************)
CountKind(trace, n, kind) ==
    Cardinality({ k \in 1..n : trace[k].kind = kind })

\* The number of FunctionStart events minus the number of FunctionEnd
\* events among the first n events.
Depth(trace, n) ==
    CountKind(trace, n, "FunctionStart") - CountKind(trace, n, "FunctionEnd")

\* C23: for any sequence of events, the depth after each event is the
\* number of FunctionStart events minus the number of FunctionEnd events so
\* far, FUNCTION START is printed at the indent before the increment,
\* FUNCTION END at the indent after the decrement, every other line at the
\* current indent, and the indent is twice the depth.
C23_Indent ==
    /\ reporter.status \notin {"panicked", "aborted"}
    /\ reporter.status = "report_trace" =>
          /\ reporter.call_depth = Depth(reporter.trace, reporter.pos)
          /\ \A k \in 1..Len(reporter.output) :
                reporter.output[k].indent =
                    IF reporter.trace[k].kind = "FunctionStart"
                    THEN 2 * Depth(reporter.trace, k - 1)
                    ELSE 2 * Depth(reporter.trace, k)

\* The line says what the event is.
Renders(line, event) ==
    CASE event.kind = "FunctionStart" ->
            line.text = "FUNCTION START" /\ line.arg = <<event.recovered_func_id>>
      [] event.kind = "FunctionEnd" ->
            line.text = "FUNCTION END" /\ line.arg = <<event.recovered_func_id>>
      [] event.kind = "OpcodeRun" ->
            line.text = "opcode" /\ line.arg[1] = event.opcode_offset
                                 /\ line.arg[3] = event.fuel_consumption
      [] OTHER ->
            line.text = "SYSTEM COST" /\ line.arg = <<event.fuel_consumption>>

\* C24: the report of a trace has one line for every event, in the order
\* of the trace: line k says what event k is.
C24_OneLinePerEvent ==
    reporter.status = "returned" =>
      /\ Len(reporter.output) = Len(reporter.trace)
      /\ \A k \in 1..Len(reporter.output) :
            Renders(reporter.output[k], reporter.trace[k])

(***************************************************************************)
(* Properties of the walks over the operators of a function.               *)
(***************************************************************************)
\* C25: when the next operator of a function cannot be decoded, the walk
\* ends with that failure: it does not go on with the bytes that follow.
C25_NoSwallowedError ==
    [][ (op_pc \in {"walk", "collect"} /\ ~done(op_reader)
           /\ from_reader(op_reader, overflow_checks).err # "none")
        => op_pc' \notin {"walk", "collect"} ]_vars


\* C26: every operator that print_func has decoded and printed carries, as
\* the mnemonic of its line, the name name_from_byte gives for its opcode
\* byte.
C26_Mnemonics ==
    op_pc \in {"walk", "done"} =>
        \A i \in 1..Len(ops) :
            print_op(ops[i]) = name_from_byte(discriminant(ops[i]))


\* C27: the decoder terminates: the iterator ends (the parser is done) after
\* finitely many items, the decoder offset never decreases, and it never
\* exceeds the length of the buffer.
C27_OffsetBounded == parser.offset <= Len(data)

C27_OffsetMonotone == [][parser'.offset >= parser.offset]_vars

C27_Halts == <>(parser.done \/ pc = "panicked")

C27_Terminates ==
    /\ <>parser.done
    /\ [](parser.offset <= Len(data))
    /\ [][parser'.offset >= parser.offset]_vars


\* The bytes a read returned are the bytes of the window from the offset
\* the reader had, none of them outside the window.
ReadWithinWindow(l) ==
    /\ Len(l.bytes) = l.size
    /\ \A j \in 1..l.size :
          /\ l.before.offset + j <= Len(l.before.data)
          /\ l.bytes[j] = l.before.data[l.before.offset + j]

\* The sub-reader sub carved from the reader that was `before` and is now
\* par: its window is the next `size` bytes, its offset 0, the parent
\* advanced by size.
Carved(before, size, par, sub) ==
    /\ sub.offset = 0
    /\ Len(sub.data) = size
    /\ before.offset + size <= Len(before.data)
    /\ \A j \in 1..size : sub.data[j] = before.data[before.offset + j]
    /\ par.data = before.data
    /\ par.offset = before.offset + size

\* C28: a carved sub-reader's window is exactly the next N bytes of its
\* parent and its offset is 0, the parent is advanced by exactly N; after
\* any sequence of read, skip and slice, successful or failed, every reader
\* has 0 <= offset <= window length, and a read returns bytes of the window
\* only.
C28_SubReader ==
    /\ \A i \in 1..Len(readers.rds) :
          /\ 0 <= readers.rds[i].offset
          /\ readers.rds[i].offset <= Len(readers.rds[i].data)
    /\ (readers.last.op = "slice" /\ readers.last.err = "none") =>
          Carved(readers.last.before, readers.last.size,
                 readers.rds[readers.last.target],
                 readers.rds[Len(readers.rds)])
    /\ (readers.last.op = "read" /\ readers.last.err = "none") =>
          ReadWithinWindow(readers.last)

\* A sub-reader carved from a parent that had advanced, whose only byte is
\* the parent's second, read to its end.
C28_Witness ==
    /\ Len(readers.rds) = 2
    /\ readers.rds[1].offset = 2
    /\ readers.rds[2] = [data |-> <<2>>, offset |-> 1]
    /\ readers.last.op = "read"
    /\ readers.last.target = 2
    /\ readers.last.err = "none"
    /\ readers.last.bytes = <<2>>


\* C30: a translate call does not depend on the calls made before it on the
\* same builder: when it returns, the function list it has built, the one of
\* the builder's translation, holds the functions of the buffer just
\* translated and no other, record i with index i, counted from 0, and with
\* the header of the call's i-th FunctionHeader.
C30_IndependentCalls ==
    (pc = "returned" /\ ret.status = "Ok") =>
        LET fs == builder.translation.module.functions
            hs == SelectSeq(stream, LAMBDA it : it.kind = "FunctionHeader")
        IN /\ Len(fs) = Len(hs)
           /\ \A i \in 1..Len(hs) :
                 /\ fs[i].index = i - 1
                 /\ fs[i].header = hs[i].body

\* The header of the function the i-th item of the stream belongs to: the
\* last FunctionHeader up to it.
FunctionHeaderAt(i) ==
    LET js == { j \in 1..i : stream[j].kind = "FunctionHeader" }
    IN stream[CHOOSE j \in js : \A k \in js : k <= j].body

DebugFlagAt(i) == (FunctionHeaderAt(i).flags \div 512) % 2 = 1

\* C31: a FunctionDebugInfo payload is emitted for a function iff bit 9 of
\* its flags is set: after FunctionOperators the parser is in Debug when the
\* bit is set and in Tags otherwise, whatever the other bits; a
\* FunctionDebugInfo follows the FunctionOperators of a function with the
\* bit only; and the FunctionOperators of a function with the bit is
\* followed by its FunctionDebugInfo, or by the failure to decode it.
C31_DebugIffFlag ==
    \A i \in 1..Len(stream) :
       /\ (stream[i].kind = "FunctionOperators" /\ i = Len(stream)) =>
             parser.state = IF DebugFlagAt(i) THEN "Debug" ELSE "Tags"
       /\ stream[i].kind = "FunctionDebugInfo" =>
             i > 1 /\ stream[i - 1].kind = "FunctionOperators" /\ DebugFlagAt(i)
       /\ (stream[i].kind = "FunctionOperators" /\ ~DebugFlagAt(i) /\ i < Len(stream)) =>
             stream[i + 1].kind # "FunctionDebugInfo"
       /\ (stream[i].kind = "FunctionOperators" /\ DebugFlagAt(i)) =>
             IF i < Len(stream)
             THEN stream[i + 1].kind \in {"FunctionDebugInfo", "Err"}
             ELSE pc = "translate" /\ ~parser.done

\* C32: decoding PushI32 (opcode byte 1) succeeds for every 4-byte
\* immediate and yields the little-endian two's-complement i32 of the four
\* bytes, negative values included.
C32_PushI32 ==
    (op_pc = "walk" /\ ~done(op_reader) /\ NextByte = 1 /\ EnoughImmediates) =>
        LET r == from_reader(op_reader, overflow_checks)
            bs == SubSeq(op_reader.data, op_reader.offset + 2, op_reader.offset + 5)
        IN /\ r.err = "none"
           /\ r.val.value = bs[1] + 256 * bs[2] + 65536 * bs[3]
                              + 16777216 * (IF bs[4] >= 128 THEN bs[4] - 256 ELSE bs[4])

\* C33: decoding Eval (49) and ApplyEval (50) does not abort and does not
\* overflow, whatever the u16 scope immediate, 0 included: the decoded scope
\* is a u16, and the immediate less one when the immediate is positive.
C33_EvalScope ==
    (op_pc = "walk" /\ ~done(op_reader) /\ NextByte \in {49, 50} /\ EnoughImmediates) =>
        LET r == from_reader(op_reader, overflow_checks)
            at == op_reader.offset + (IF NextByte = 49 THEN 4 ELSE 2)
            scope == op_reader.data[at] + 256 * op_reader.data[at + 1]
        IN /\ r.err = "none"
           /\ r.val.value \in 0..65535
           /\ scope > 0 => r.val.value = scope - 1

\* The variant names of the short-form clusters with the digit each ends in.
ShortFormDigit ==
    [n \in {"GetLoc0", "PutLoc0", "SetLoc0", "GetArg0", "PutArg0", "SetArg0",
            "GetVarRef0", "PutVarRef0", "SetVarRef0"} |-> 0]
    @@ [n \in {"GetLoc1", "PutLoc1", "SetLoc1", "GetArg1", "PutArg1", "SetArg1",
               "GetVarRef1", "PutVarRef1", "SetVarRef1"} |-> 1]
    @@ [n \in {"GetLoc2", "PutLoc2", "SetLoc2", "GetArg2", "PutArg2", "SetArg2",
               "GetVarRef2", "PutVarRef2", "SetVarRef2"} |-> 2]
    @@ [n \in {"GetLoc3", "PutLoc3", "SetLoc3", "GetArg3", "PutArg3", "SetArg3",
               "GetVarRef3", "PutVarRef3", "SetVarRef3"} |-> 3]

\* The cluster bases as the specification lists them.
ClusterBase ==
    [GetLoc |-> 199, PutLoc |-> 203, SetLoc |-> 207, GetArg |-> 211, PutArg |-> 215,
     SetArg |-> 219, GetVarRef |-> 223, PutVarRef |-> 227, SetVarRef |-> 231]

\* C34: for an operator of a short-form cluster the synthesized index is
\* the opcode byte less the cluster's base, lies in 0..3 and is the digit
\* the variant name ends in; the variant is the one name_from_byte gives
\* for the byte, the operators outside the clusters get no index.
C34_ShortFormIndex ==
    op_pc = "reported" =>
        \A i \in 1..Len(ops) :
            IF ops[i].byte \in 199..234
            THEN /\ ops[i].short # <<>>
                 /\ ops[i].short[2] = ops[i].byte - ClusterBase[ops[i].short[1]]
                 /\ ops[i].short[2] \in 0..3
                 /\ ops[i].short[2] = ShortFormDigit[name_from_byte(ops[i].byte)]
                 /\ ops[i].name = name_from_byte(ops[i].byte)
            ELSE ops[i].short = <<>>

\* Byte 211 has been decoded to GetArg0 and reported with the index 0.
C34_Witness ==
    /\ op_pc = "reported"
    /\ \E i \in 1..Len(ops) :
          /\ ops[i].byte = 211
          /\ ops[i].name = "GetArg0"
          /\ ops[i].short = <<"GetArg", 0>>

\* The n strings that start at position pos of the buffer d, each after a
\* one-byte length whose low bit says that its characters are two bytes wide.
RECURSIVE HeaderStrings(_, _, _)
HeaderStrings(d, pos, n) ==
    IF n = 0 THEN <<>>
    ELSE LET size == (d[pos] \div 2) * (IF d[pos] % 2 = 1 THEN 2 ELSE 1)
         IN <<SubSeq(d, pos + 1, pos + size)>> \o HeaderStrings(d, pos + size + 1, n - 1)

\* C35: after the Header payload the atom table is the 228 built-in names
\* followed by the decoded strings in header order: its length is
\* 228 + atom_count, entry i is the i-th built-in name for i < 228, and
\* entry 228 + j is the j-th string of the header.
C35_AtomTable ==
    \A i \in 1..Len(stream) :
       (stream[i].kind = "Header" /\ data[2] < 128) =>
          LET h == stream[i].body
              strs == HeaderStrings(data, 3, data[2])
          IN /\ h.atom_count = data[2]
             /\ h.atoms.len = 228 + h.atom_count
             /\ \A k \in 0..227 : atoms_index(h.atoms, k) = ROk(<<"builtin", k>>)
             /\ \A j \in 0..(h.atom_count - 1) :
                   atoms_index(h.atoms, 228 + j) = ROk(<<"custom", strs[j + 1]>>)
             /\ atoms_index(h.atoms, 228 + h.atom_count) = RPanic

\* A header with two strings, "a" and a wide "b", has been decoded.
C35_Witness ==
    /\ Len(stream) >= 2
    /\ stream[2].kind = "Header"
    /\ stream[2].body.atom_count = 2
    /\ stream[2].body.atoms.custom = << <<97>>, <<98, 0>> >>
    /\ atoms_index(stream[2].body.atoms, 229) = ROk(<<"custom", <<98, 0>>>>)

\* C36: every local is declared exactly once: after handle_entry the
\* declared locals are the indices 0..local_count, each declared once, and
\* a further declare_local of a declared local fails and leaves the
\* declarations as they are.
C36_DeclaredOnce ==
    fb.status \in {"handle_operator", "validate_blocks"} =>
        /\ Keys(fb.decl) = 0..(fb.header.local_count - 1)
        /\ Len(fb.decl) = Cardinality(Keys(fb.decl))
        /\ \A local \in Keys(fb.decl) :
              /\ declare_local(fb, local).status = "failed"
              /\ declare_local(fb, local).decl = fb.decl


\* C37: a failed read leaves the reader where it was: on the reader that
\* Parser::parse makes over the rest of the buffer, a read, skip or
\* read_leb128 that returns an error returns the reader at the offset it
\* had.
C37_FailedReadKeepsOffset ==
    (pc = "translate" /\ ~parser.done) =>
        \A r \in {BinaryReader_new(SubSeq(data, parser.offset + 1, Len(data)))} :
           /\ read_u8(r).err # "none" => read_u8(r).rd.offset = r.offset
           /\ read_u16(r).err # "none" => read_u16(r).rd.offset = r.offset
           /\ \A n \in 0..3 :
                 /\ read(r, n).err # "none" => read(r, n).rd.offset = r.offset
                 /\ skip(r, n).err # "none" => skip(r, n).rd.offset = r.offset
           /\ read_leb128(r).err # "none" => read_leb128(r).rd.offset = r.offset
====
